---- MODULE Spec2Model ----
(***************************************************************************)
(* A model of truscanner's regex scanner (src/src/regex_scanner.py): the   *)
(* catalog loader, the keyword pre-filter, the line-offset index, the      *)
(* match engine, the false-positive filter and the directory walker.       *)
(*                                                                         *)
(* Texts, pattern strings and file names are sequences of one-character    *)
(* strings; offsets are 0-based as in Python, TLA+ indices are 1-based.    *)
(***************************************************************************)
EXTENDS Integers, Sequences, FiniteSets, TLC

(***************************************************************************)
(* Characters and the str methods the scanner uses.                        *)
(***************************************************************************)
LowerAlpha ==
  {"a","b","c","d","e","f","g","h","i","j","k","l","m",
   "n","o","p","q","r","s","t","u","v","w","x","y","z"}

UpperAlpha ==
  {"A","B","C","D","E","F","G","H","I","J","K","L","M",
   "N","O","P","Q","R","S","T","U","V","W","X","Y","Z"}

DigitChars == {"0","1","2","3","4","5","6","7","8","9"}

AlphaChars == LowerAlpha \cup UpperAlpha

\* The characters matched by \w.
WordChars == AlphaChars \cup DigitChars \cup {"_"}

\* The characters matched by \s and removed by str.strip().
SpaceChars == {" ", "\t", "\n", "\r", "\f"}

\* The line boundaries of str.splitlines() among the modelled characters.
LineBreakChars == {"\n", "\r", "\f"}

LowerOf ==
  ("A" :> "a") @@ ("B" :> "b") @@ ("C" :> "c") @@ ("D" :> "d") @@ ("E" :> "e") @@
  ("F" :> "f") @@ ("G" :> "g") @@ ("H" :> "h") @@ ("I" :> "i") @@ ("J" :> "j") @@
  ("K" :> "k") @@ ("L" :> "l") @@ ("M" :> "m") @@ ("N" :> "n") @@ ("O" :> "o") @@
  ("P" :> "p") @@ ("Q" :> "q") @@ ("R" :> "r") @@ ("S" :> "s") @@ ("T" :> "t") @@
  ("U" :> "u") @@ ("V" :> "v") @@ ("W" :> "w") @@ ("X" :> "x") @@ ("Y" :> "y") @@
  ("Z" :> "z")

LowerChar(c) == IF c \in UpperAlpha THEN LowerOf[c] ELSE c

\* str.lower()
Lower(s) == [k \in 1..Len(s) |-> LowerChar(s[k])]

Min2(a, b) == IF a < b THEN a ELSE b

\* The least number of the finite set S, or default if S is empty.
MinOr(S, default) ==
  IF S = {} THEN default ELSE CHOOSE k \in S : \A j \in S : k <= j

Max2(a, b) == IF a > b THEN a ELSE b

\* s[a:b] for 0 <= a, with Python's clamping of both ends.
Slice(s, a, b) ==
  LET hi == Min2(b, Len(s))
  IN  IF a >= hi THEN <<>> ELSE [k \in 1..(hi - a) |-> s[a + k]]

\* s[a:]
SliceFrom(s, a) == Slice(s, a, Len(s))

\* s.startswith(sub, at): sub occurs in s at 0-based offset at.
OccursAt(s, sub, at) ==
  /\ at + Len(sub) <= Len(s)
  /\ \A k \in 1..Len(sub) : s[at + k] = sub[k]

StartsWith(s, sub) == OccursAt(s, sub, 0)

\* s.find(sub, from): the lowest offset >= from where sub occurs, or -1.
FindFrom(s, sub, from) ==
  LET hits == {i \in from..(Len(s) - Len(sub)) : OccursAt(s, sub, i)}
  IN  IF hits = {} THEN -1 ELSE CHOOSE i \in hits : \A j \in hits : i <= j

Find(s, sub) == FindFrom(s, sub, 0)

\* s.rfind(sub, 0, to): the highest offset where sub occurs within s[0:to], or -1.
RFindBefore(s, sub, to) ==
  LET lim  == Min2(to, Len(s))
      hits == {i \in 0..(lim - Len(sub)) : OccursAt(s, sub, i)}
  IN  IF hits = {} THEN -1 ELSE CHOOSE i \in hits : \A j \in hits : i >= j

RFind(s, sub) == RFindBefore(s, sub, Len(s))

\* sub in s
Contains(s, sub) == Find(s, sub) # -1

\* str.strip()
Strip(s) ==
  LET keep == {k \in 1..Len(s) : s[k] \notin SpaceChars}
  IN  IF keep = {} THEN <<>>
      ELSE LET lo == CHOOSE k \in keep : \A j \in keep : k <= j
               hi == CHOOSE k \in keep : \A j \in keep : k >= j
           IN  [k \in 1..(hi - lo + 1) |-> s[lo + k - 1]]

\* The numbers of the finite set S in ascending order.
Ascending(S) ==
  [j \in 1..Cardinality(S) |-> CHOOSE k \in S : Cardinality({m \in S : m <= k}) = j]

\* seqs[lo] \o ... \o seqs[hi], for a sequence (or function) of sequences.
RECURSIVE ConcatRange(_, _, _)
ConcatRange(seqs, lo, hi) ==
  IF lo > hi THEN <<>>
  ELSE IF lo = hi THEN seqs[lo]
       ELSE LET mid == (lo + hi) \div 2
            IN  ConcatRange(seqs, lo, mid) \o ConcatRange(seqs, mid + 1, hi)

ConcatAll(seqs) == ConcatRange(seqs, 1, Len(seqs))

\* str.splitlines(): the text cut at every \n, \r, \r\n and \f; a line
\* break at the very end of the text opens no further line.  breaks holds
\* the index of the last character of every line break.
SplitLines(text) ==
  LET n == Len(text)
      IsCrLf(k) == k > 1 /\ text[k] = "\n" /\ text[k - 1] = "\r"
      breaks == Ascending({k \in 1..n : /\ text[k] \in LineBreakChars
                                        /\ ~(k < n /\ IsCrLf(k + 1))})
      m == Len(breaks)
      LineFrom(j) == IF j = 1 THEN 0 ELSE breaks[j - 1]
      LineTo(j) == IF j > m THEN n
                   ELSE IF IsCrLf(breaks[j]) THEN breaks[j] - 2 ELSE breaks[j] - 1
      count == IF m = 0 THEN (IF n = 0 THEN 0 ELSE 1)
               ELSE IF breaks[m] < n THEN m + 1 ELSE m
  IN  [j \in 1..count |-> Slice(text, LineFrom(j), LineTo(j))]

(***************************************************************************)
(* The regular expressions of Python's re module, as far as the scanner    *)
(* and the modelled catalogs use them.  A compiled pattern is a tree:      *)
(*   <<"lit", c>>      the character c                                     *)
(*   <<"str", w>>      the characters of w in sequence                     *)
(*   <<"set", S>>      one character of S      ([...], \d, \w, \s)         *)
(*   <<"nset", S>>     one character not in S  ([^...])                    *)
(*   <<"any">>         any character but \n    (.)                         *)
(*   <<"b">>           a word boundary         (\b)                        *)
(*   <<"cat", rs>>     the patterns of rs in sequence                      *)
(*   <<"alt", rs>>     the first pattern of rs that leads to a match       *)
(*   <<"opt", r>>      r?                                                  *)
(*   <<"star", r>>     r*      <<"plus", r>>   r+                           *)
(*   <<"min", r, n>>   r{n,}                                               *)
(* Ends(r, s, i, ic) is the sequence of end offsets of the matches of r    *)
(* that start at offset i of s, in the order the backtracking matcher      *)
(* tries them; its head is the match re reports.  ic is re.IGNORECASE.     *)
(***************************************************************************)
Lit(c) == <<"lit", c>>

Cat(rs) == <<"cat", rs>>

Alt(rs) == <<"alt", rs>>

Opt(r) == <<"opt", r>>

Star(r) == <<"star", r>>

Plus(r) == <<"plus", r>>

AtLeast(r, n) == <<"min", r, n>>

OneOf(S) == <<"set", S>>

NoneOf(S) == <<"nset", S>>

WordBoundary == <<"b">>

\* The pattern matching exactly the characters of w: re.escape(w) compiled,
\* or a run of literal characters of a pattern.
Word(w) == <<"str", w>>

CharEq(c, d, ic) == IF ic THEN LowerChar(c) = LowerChar(d) ELSE c = d

\* \b at offset i: exactly one of the characters around i is a word character.
AtBoundary(s, i) ==
  LET before == i >= 1 /\ i <= Len(s) /\ s[i] \in WordChars
      after  == i < Len(s) /\ s[i + 1] \in WordChars
  IN  before # after

\* One character against a pattern that matches single characters.
IsCharPattern(r) == r[1] \in {"lit", "set", "nset", "any"}

CharMatches(r, c, ic) ==
  CASE r[1] = "lit"  -> CharEq(c, r[2], ic)
    [] r[1] = "set"  -> c \in r[2]
    [] r[1] = "nset" -> c \notin r[2]
    [] r[1] = "any"  -> c # "\n"

\* w occurs in s at offset i, by the comparison of the flag.
WordAt(s, w, i, ic) ==
  /\ i + Len(w) <= Len(s)
  /\ \A k \in 1..Len(w) : CharEq(s[i + k], w[k], ic)

\* The number of characters from offset i on that the character pattern matches.
RunLength(r, s, i, ic) ==
  MinOr({k \in (i + 1)..Len(s) : ~CharMatches(r, s[k], ic)}, Len(s) + 1) - 1 - i

RECURSIVE Ends(_, _, _, _)
RECURSIVE SeqEnds(_, _, _, _, _)
RECURSIVE StarEnds(_, _, _, _)
RECURSIVE Copies(_, _)

\* The ends of r from each of starts, in order.
EachEnds(r, s, starts, ic) ==
  ConcatAll([k \in 1..Len(starts) |-> Ends(r, s, starts[k], ic)])

\* The ends of rs[k..] in sequence, from each of starts.
SeqEnds(rs, k, s, starts, ic) ==
  IF k > Len(rs) \/ starts = <<>> THEN starts
  ELSE SeqEnds(rs, k + 1, s, EachEnds(rs[k], s, starts, ic), ic)

\* hi, hi - 1, ..., lo
Descending(hi, lo) == [j \in 1..(hi - lo + 1) |-> hi + 1 - j]

\* The ends of r* at offset i, ones being the ends of one r there.
StarMore(r, s, i, ic, ones) ==
  ConcatAll([k \in 1..Len(ones) |->
               IF ones[k] > i THEN StarEnds(r, s, ones[k], ic) ELSE <<>>])
    \o <<i>>

\* Greedy repetition: as many r as possible first, none last.  A character
\* pattern is repeated over the run of characters it matches; any other
\* pattern is tried once more wherever its previous match consumed.  (The
\* repeated patterns of the scanner and of the modelled catalogs never
\* match the empty string.)
StarEnds(r, s, i, ic) ==
  IF IsCharPattern(r)
  THEN Descending(i + RunLength(r, s, i, ic), i)
  ELSE StarMore(r, s, i, ic, Ends(r, s, i, ic))

Copies(r, n) == IF n = 0 THEN <<>> ELSE <<r>> \o Copies(r, n - 1)

Ends(r, s, i, ic) ==
  CASE IsCharPattern(r) ->
         IF i < Len(s) /\ CharMatches(r, s[i + 1], ic) THEN <<i + 1>> ELSE <<>>
    [] r[1] = "str"  -> IF WordAt(s, r[2], i, ic) THEN <<i + Len(r[2])>> ELSE <<>>
    [] r[1] = "b"    -> IF AtBoundary(s, i) THEN <<i>> ELSE <<>>
    [] r[1] = "cat"  -> SeqEnds(r[2], 1, s, <<i>>, ic)
    [] r[1] = "alt"  -> ConcatAll([k \in 1..Len(r[2]) |-> Ends(r[2][k], s, i, ic)])
    [] r[1] = "opt"  -> Ends(r[2], s, i, ic) \o <<i>>
    [] r[1] = "star" -> StarEnds(r[2], s, i, ic)
    [] r[1] = "plus" -> EachEnds(Star(r[2]), s, Ends(r[2], s, i, ic), ic)
    [] r[1] = "min"  -> SeqEnds(Copies(r[2], r[3]) \o <<Star(r[2])>>, 1, s, <<i>>, ic)

\* re.search(r, s, flags) is not None
Search(r, s, ic) == \E i \in 0..Len(s) : Ends(r, s, i, ic) # <<>>

\* The first end the matcher accepts at offset i; with must_advance the
\* empty match at i is refused and the matcher backtracks.  -1: no match.
RECURSIVE FirstEnd(_, _, _, _)
FirstEnd(ends, k, i, must_advance) ==
  IF k > Len(ends) THEN -1
  ELSE IF must_advance /\ ends[k] = i THEN FirstEnd(ends, k + 1, i, must_advance)
       ELSE ends[k]

\* pattern.finditer(s): the non-overlapping matches <<start, end>>, left to
\* right.  ends[i] holds Ends at offset i.  After an empty match the next
\* search starts at the same offset with must_advance set for that offset
\* only.
RECURSIVE FindIterFrom(_, _, _, _)

\* The match <<i, e>> and those after it.
FindIterEmit(ends, n, i, e) == <<(<<i, e>>)>> \o FindIterFrom(ends, n, e, e = i)

\* The matches from pos on, found being the offsets >= pos with a match.
FindIterNext(ends, n, pos, must_advance, found) ==
  IF found = {} THEN <<>>
  ELSE FindIterEmit(ends, n, MinOr(found, n),
                    FirstEnd(ends[MinOr(found, n)], 1, MinOr(found, n),
                             must_advance /\ MinOr(found, n) = pos))

FindIterFrom(ends, n, pos, must_advance) ==
  FindIterNext(ends, n, pos, must_advance,
               {i \in pos..n : FirstEnd(ends[i], 1, i, must_advance /\ i = pos) # -1})

FindIter(r, s) ==
  FindIterFrom([i \in 0..Len(s) |-> Ends(r, s, i, FALSE)], Len(s), 0, FALSE)

(***************************************************************************)
(* re.compile on a catalog pattern string.  The dialect of the modelled    *)
(* catalogs: literal characters, ".", the escapes \d \w \s \b and escaped  *)
(* punctuation, the quantifiers ? * +, alternation and groups.  A result   *)
(* is [ok, node, pos]: ok is FALSE where re.compile raises re.error, pos   *)
(* is the 1-based index of the first character not yet read.               *)
(***************************************************************************)
QuantChars == {"?", "*", "+"}

ParseFail == [ok |-> FALSE, node |-> <<>>, pos |-> 0]

ParseOk(node, pos) == [ok |-> TRUE, node |-> node, pos |-> pos]

RECURSIVE ParseAlt(_, _)
RECURSIVE ParseCat(_, _, _)
RECURSIVE ParseAtom(_, _)

\* An escape sequence, p[i] being the backslash.
ParseEscape(p, i) ==
  IF i = Len(p) THEN ParseFail                            \* bad escape (end of pattern)
  ELSE LET d == p[i + 1]
       IN  CASE d = "d" -> ParseOk(OneOf(DigitChars), i + 2)
             [] d = "w" -> ParseOk(OneOf(WordChars), i + 2)
             [] d = "s" -> ParseOk(OneOf(SpaceChars), i + 2)
             [] d = "b" -> ParseOk(WordBoundary, i + 2)
             [] d \in (AlphaChars \cup DigitChars) \ {"d", "w", "s", "b"} -> ParseFail
             [] OTHER   -> ParseOk(Lit(d), i + 2)

\* The group whose inside has been read as inner: its ")" must follow.
ParseGroupEnd(p, inner) ==
  IF inner.ok /\ inner.pos <= Len(p) /\ p[inner.pos] = ")"
  THEN ParseOk(inner.node, inner.pos + 1)
  ELSE ParseFail                                          \* missing ), unterminated subpattern

ParseAtom(p, i) ==
  CASE p[i] = "("  -> ParseGroupEnd(p, ParseAlt(p, i + 1))
    [] p[i] = "\\" -> ParseEscape(p, i)
    [] p[i] \in QuantChars -> ParseFail                   \* nothing to repeat
    [] p[i] = "."  -> ParseOk(<<"any">>, i + 1)
    [] OTHER       -> ParseOk(Lit(p[i]), i + 1)

\* The quantifier, if any, that follows an atom ending before p[i].
ParseQuant(p, i, node) ==
  IF i <= Len(p) /\ p[i] \in QuantChars
  THEN IF i < Len(p) /\ p[i + 1] \in QuantChars
       THEN ParseFail                                     \* multiple repeat
       ELSE ParseOk(CASE p[i] = "?" -> Opt(node)
                      [] p[i] = "*" -> Star(node)
                      [] p[i] = "+" -> Plus(node), i + 1)
  ELSE ParseOk(node, i)

\* The rest of a sequence after its item q (an atom with its quantifier).
ParseCatAfterItem(p, acc, q) ==
  IF ~q.ok THEN ParseFail ELSE ParseCat(p, q.pos, Append(acc, q.node))

\* The rest of a sequence after the atom a.
ParseCatAfterAtom(p, acc, a) ==
  IF ~a.ok THEN ParseFail ELSE ParseCatAfterItem(p, acc, ParseQuant(p, a.pos, a.node))

ParseCat(p, i, acc) ==
  IF i > Len(p) \/ p[i] \in {"|", ")"} THEN ParseOk(Cat(acc), i)
  ELSE ParseCatAfterAtom(p, acc, ParseAtom(p, i))

\* The alternation of the branch b and the branches after its "|".
ParseAltJoin(b, rest) ==
  IF ~rest.ok THEN ParseFail ELSE ParseOk(Alt(<<b.node, rest.node>>), rest.pos)

\* What follows the branch b: a "|" and more branches, or nothing.
ParseAltAfterBranch(p, b) ==
  IF ~b.ok THEN ParseFail
  ELSE IF b.pos <= Len(p) /\ p[b.pos] = "|"
       THEN ParseAltJoin(b, ParseAlt(p, b.pos + 1))
       ELSE b

ParseAlt(p, i) == ParseAltAfterBranch(p, ParseCat(p, i, <<>>))

\* The result of re.compile for the parse r of the whole pattern.
CompileResult(pattern, r) ==
  IF r.ok /\ r.pos = Len(pattern) + 1         \* otherwise: unbalanced parenthesis
  THEN [ok |-> TRUE, pattern |-> pattern, prog |-> r.node]
  ELSE [ok |-> FALSE, pattern |-> pattern, prog |-> <<>>]

\* re.compile(pattern): [ok |-> FALSE] stands for re.error; a compiled
\* pattern keeps its source string, as re.Pattern.pattern does.
re_compile(pattern) == CompileResult(pattern, ParseAlt(pattern, 1))

(***************************************************************************)
(* The catalog loader.                                                     *)
(***************************************************************************)
\* re.sub(r'\\[a-zA-Z]', ' ', pattern)
RECURSIVE CleanPattern(_, _)
CleanPattern(p, i) ==
  IF i > Len(p) THEN <<>>
  ELSE IF p[i] = "\\" /\ i < Len(p) /\ p[i + 1] \in AlphaChars
       THEN <<" ">> \o CleanPattern(p, i + 2)
       ELSE <<p[i]>> \o CleanPattern(p, i + 1)

\* re.findall(r'[a-zA-Z]{3,}', s): the maximal runs of 3 or more letters.
RECURSIVE AlphaRuns(_, _, _)
AlphaRuns(s, i, cur) ==
  IF i > Len(s) THEN (IF Len(cur) >= 3 THEN {cur} ELSE {})
  ELSE IF s[i] \in AlphaChars THEN AlphaRuns(s, i + 1, Append(cur, s[i]))
       ELSE (IF Len(cur) >= 3 THEN {cur} ELSE {}) \cup AlphaRuns(s, i + 1, <<>>)

\* The keywords one pattern string contributes.
PatternKeywords(pattern) ==
  {Lower(w) : w \in AlphaRuns(CleanPattern(pattern, 1), 1, <<>>)}
    \cup (IF \E k \in 1..Len(pattern) : pattern[k] = "@" THEN {<<"@">>} ELSE {})

\* compiled_patterns.append(...) for the result c of re.compile: nothing is
\* appended when re.compile raised.
AppendCompiled(c) ==
  IF c.ok THEN <<[pattern |-> c.pattern, prog |-> c.prog]>> ELSE <<>>

\* The compiled patterns of patterns[k..], the invalid ones left out.
RECURSIVE CompiledPatterns(_, _)
CompiledPatterns(patterns, k) ==
  IF k > Len(patterns) THEN <<>>
  ELSE AppendCompiled(re_compile(patterns[k])) \o CompiledPatterns(patterns, k + 1)

\* A variant of SourceKeywords that takes the keywords of every pattern
\* string, the ones that do not compile too.
SourceKeywordsOfAll(patterns) ==
  UNION {PatternKeywords(patterns[k]) : k \in 1..Len(patterns)}

\* The keywords of the pattern strings that compile: the keyword lines are
\* not reached when re.compile raises.
SourceKeywords(patterns) ==
  UNION {PatternKeywords(patterns[k]) :
           k \in {j \in 1..Len(patterns) : re_compile(patterns[j]).ok}}

\* source.get(key, default)
SourceGet(source, key, default) ==
  IF key \in DOMAIN source THEN source[key] ELSE default

\* dict(): the empty tags mapping.
EmptyTags == [k \in {} |-> ""]

\* The end of the loop body: the element is built and appended if there are
\* compiled patterns.  raised stands for the KeyError of source["name"] or
\* source["category"].
SourceElement(source, compiled_patterns, keywords) ==
  IF compiled_patterns = <<>> THEN [raised |-> FALSE, elements |-> <<>>]
  ELSE IF "name" \notin DOMAIN source \/ "category" \notin DOMAIN source
       THEN [raised |-> TRUE, elements |-> <<>>]
       ELSE [raised |-> FALSE,
             elements |-> <<[name |-> source.name,
                             category |-> source.category,
                             patterns |-> compiled_patterns,
                             keywords |-> keywords,
                             tags |-> SourceGet(source, "tags", EmptyTags)]>>]

\* The body of the loop over the sources of one file: [raised, elements].
ParseSource(source) ==
  SourceElement(source,
                CompiledPatterns(SourceGet(source, "patterns", <<>>), 1),
                SourceKeywords(SourceGet(source, "patterns", <<>>)))

RECURSIVE ParseSources(_, _, _)

\* After the loop body for sources[k] gave r: the loop is left if it raised,
\* the elements appended before stay in the list.
ParseSourcesAfter(elements, sources, k, r) ==
  IF r.raised THEN elements
  ELSE ParseSources(elements \o r.elements, sources, k + 1)

\* The loop over the sources of one file.
ParseSources(elements, sources, k) ==
  IF k > Len(sources) THEN elements
  ELSE ParseSourcesAfter(elements, sources, k, ParseSource(sources[k]))

\* _parse_json_file: a file json.load cannot read raises at once; every
\* exception is caught (and printed) around the whole file.
parse_json_file(elements, json_file) ==
  IF ~json_file.valid THEN elements
  ELSE ParseSources(elements, SourceGet(json_file, "sources", <<>>), 1)

\* _load_data_elements: every *.json file under the directory, if it exists.
RECURSIVE LoadFiles(_, _, _)
LoadFiles(elements, files, k) ==
  IF k > Len(files) THEN elements
  ELSE LoadFiles(parse_json_file(elements, files[k]), files, k + 1)

load_data_elements(elements, dir) ==
  IF dir.exists THEN LoadFiles(elements, dir.files, 1) ELSE elements

(***************************************************************************)
(* The false-positive filter.  The regular expressions it searches for     *)
(* are given compiled; the matched text is embedded through re.escape, so  *)
(* it stands for its own characters.                                       *)
(***************************************************************************)
Spaces == Star(OneOf(SpaceChars))

Spaces1 == Plus(OneOf(SpaceChars))

OptQuote == Opt(OneOf({"\"", "'"}))

CommentMarkers == {<<"/","/">>, <<"#">>, <<"/","*">>, <<"*","/">>, <<"*">>}

HtmlAttrMarkers ==
  {<<"d","e","v","i","c","e","-","w","i","d","t","h">>, <<"d","e","v","i","c","e","-","h","e","i","g","h","t">>,
   <<"a","p","p","l","e","-","t","o","u","c","h","-","i","c","o","n">>,
   <<"v","i","e","w","p","o","r","t">>, <<"m","e","t","a"," ","n","a","m","e">>,
   <<"c","o","n","t","e","n","t","=">>, <<"r","e","l","=">>}

FontMarkers == {<<"f","o","n","t","-","f","a","m","i","l","y">>, <<"g","o","o","g","l","e"," ","f","o","n","t","s">>}

GenericWords == {<<"d","e","v","i","c","e">>, <<"g","o","o","g","l","e">>, <<"a","p","p","l","e">>}

LayoutTerms ==
  {<<"w","i","d","t","h">>, <<"h","e","i","g","h","t">>, <<"t","o","u","c","h","-","i","c","o","n">>,
   <<"f","o","n","t">>, <<"m","e","t","a">>}

\* ["\']\s*(email|phone|name|address)\s*(field|column|attribute|property)
RE_FieldDescription ==
  Cat(<<OneOf({"\"", "'"}), Spaces,
        Alt(<<Word(<<"e","m","a","i","l">>), Word(<<"p","h","o","n","e">>), Word(<<"n","a","m","e">>), Word(<<"a","d","d","r","e","s","s">>)>>),
        Spaces,
        Alt(<<Word(<<"f","i","e","l","d">>), Word(<<"c","o","l","u","m","n">>),
              Word(<<"a","t","t","r","i","b","u","t","e">>), Word(<<"p","r","o","p","e","r","t","y">>)>>)>>)

\* \b(SELECT|INSERT\s+INTO|UPDATE\s+\w+\s+SET)\s+
RE_SqlStatement ==
  Cat(<<WordBoundary,
        Alt(<<Word(<<"S","E","L","E","C","T">>),
              Cat(<<Word(<<"I","N","S","E","R","T">>), Spaces1, Word(<<"I","N","T","O">>)>>),
              Cat(<<Word(<<"U","P","D","A","T","E">>), Spaces1, Plus(OneOf(WordChars)), Spaces1, Word(<<"S","E","T">>)>>)>>),
        Spaces1>>)

\* \bfunction\s+\w+\s*\([^)]*\b<matched>\b
RE_FunctionParam(matched_text) ==
  Cat(<<WordBoundary, Word(<<"f","u","n","c","t","i","o","n">>), Spaces1,
        Plus(OneOf(WordChars)), Spaces, Lit("("), Star(NoneOf({")"})),
        WordBoundary, Word(matched_text), WordBoundary>>)

\* \b<matched>\s*[:=]\s*["\']?\s*[,}]
RE_EmptyProperty(matched_text) ==
  Cat(<<WordBoundary, Word(matched_text), Spaces, OneOf({":", "="}), Spaces,
        OptQuote, Spaces, OneOf({",", "}"})>>)

\* \breturn\s+<matched>\s*[;,]
RE_ReturnName(matched_text) ==
  Cat(<<WordBoundary, Word(<<"r","e","t","u","r","n">>), Spaces1, Word(matched_text),
        Spaces, OneOf({";", ","})>>)

\* email\s*[:=]\s*["\']?[^"\']*@
RE_EmailValue ==
  Cat(<<Word(<<"e","m","a","i","l">>), Spaces, OneOf({":", "="}), Spaces, OptQuote,
        Star(NoneOf({"\"", "'"})), Lit("@")>>)

\* \d{6,}
RE_SixDigits == AtLeast(OneOf(DigitChars), 6)

\* (phone|mobile)\s*[:=]\s*["\']?[^"\']*\d{6,}
RE_PhoneValue ==
  Cat(<<Alt(<<Word(<<"p","h","o","n","e">>), Word(<<"m","o","b","i","l","e">>)>>), Spaces,
        OneOf({":", "="}), Spaces, OptQuote, Star(NoneOf({"\"", "'"})),
        AtLeast(OneOf(DigitChars), 6)>>)

\* A variant of RE_BareDeclaration that forgets the semicolon:
\* \b(const|let|var)\s+<matched>\s*,
RE_BareDeclarationCommaOnly(matched_text) ==
  Cat(<<WordBoundary,
        Alt(<<Word(<<"c","o","n","s","t">>), Word(<<"l","e","t">>), Word(<<"v","a","r">>)>>),
        Spaces1, Word(matched_text), Spaces, Lit(",")>>)

\* \b(const|let|var)\s+<matched>\s*[;,]
RE_BareDeclaration(matched_text) ==
  Cat(<<WordBoundary,
        Alt(<<Word(<<"c","o","n","s","t">>), Word(<<"l","e","t">>), Word(<<"v","a","r">>)>>),
        Spaces1, Word(matched_text), Spaces, OneOf({";", ","})>>)

\* \b<matched>\s*=\s*["\']?\s*[;,\n]
RE_EmptyAssignment(matched_text) ==
  Cat(<<WordBoundary, Word(matched_text), Spaces, Lit("="), Spaces, OptQuote,
        Spaces, OneOf({";", ",", "\n"})>>)

\* line_stripped.startswith(("//", "#", "/*", "*/", "*"))
IsCommentLine(line_stripped) ==
  \E marker \in CommentMarkers : StartsWith(line_stripped, marker)

\* The match starts after a // (or, when the line has no //, a #).
InLineComment(line_content, match_pos) ==
  LET slashes == Find(line_content, <<"/","/">>)
      comment_idx == IF slashes = -1 THEN Find(line_content, <<"#">>) ELSE slashes
  IN  /\ comment_idx # -1
      /\ \/ match_pos > comment_idx
         \/ /\ comment_idx < match_pos
            /\ Strip(Slice(line_content, 0, comment_idx)) = <<>>

\* The match starts inside a /* that the line does not close before it.
InBlockComment(line_content, match_pos) ==
  LET before_match == Slice(line_content, 0, match_pos)
  IN  /\ Contains(before_match, <<"/","*">>)
      /\ LET comment_start == RFind(before_match, <<"/","*">>)
             comment_end == FindFrom(line_content, <<"*","/">>, comment_start)
         IN  comment_end = -1 \/ comment_end > match_pos

\* The match lies in a quoted string of a line that holds an SQL statement.
InSqlString(line_content, match_pos) ==
  /\ Search(RE_SqlStatement, line_content, TRUE)
  /\ Contains(line_content, <<"\"">>) \/ Contains(line_content, <<"'">>)
  /\ LET quote_start == Max2(RFindBefore(line_content, <<"\"">>, match_pos),
                             RFindBefore(line_content, <<"'">>, match_pos))
         next_double == FindFrom(line_content, <<"\"">>, match_pos)
         next_single == FindFrom(line_content, <<"'">>, match_pos)
         quote_end == Min2(IF next_double # -1 THEN next_double ELSE Len(line_content),
                           IF next_single # -1 THEN next_single ELSE Len(line_content))
     IN  quote_start # -1 /\ quote_end > match_pos

\* _is_false_positive(line_content, matched_text, match_start, line_start)
is_false_positive(line_content, matched_text, match_start, line_start) ==
  LET line_lower == Lower(line_content)
      matched_lower == Strip(Lower(matched_text))
      line_stripped == Strip(line_content)
      match_pos == match_start - line_start
  IN  \/ IsCommentLine(line_stripped)
      \/ InLineComment(line_content, match_pos)
      \/ InBlockComment(line_content, match_pos)
      \/ \E html_attr \in HtmlAttrMarkers : Contains(line_lower, html_attr)
      \/ \E font \in FontMarkers : Contains(line_lower, font)
      \/ /\ matched_lower \in GenericWords
         /\ \E term \in LayoutTerms : Contains(line_lower, term)
      \/ Search(RE_FieldDescription, line_lower, FALSE)
      \/ InSqlString(line_content, match_pos)
      \/ Search(RE_FunctionParam(matched_text), line_content, TRUE)
      \/ Search(RE_EmptyProperty(matched_text), line_content, TRUE)
      \/ Search(RE_ReturnName(matched_text), line_content, TRUE)
      \/ /\ matched_lower = <<"e","m","a","i","l">>
         /\ ~Contains(line_content, <<"@">>)
         /\ ~Search(RE_EmailValue, line_content, TRUE)
      \/ /\ matched_lower \in {<<"p","h","o","n","e">>, <<"m","o","b","i","l","e">>}
         /\ ~Search(RE_SixDigits, line_content, FALSE)
         /\ ~Search(RE_PhoneValue, line_content, TRUE)
      \/ Search(RE_BareDeclaration(matched_text), line_content, TRUE)
      \/ Search(RE_EmptyAssignment(matched_text), line_content, TRUE)

(***************************************************************************)
(* scan_text: the line-offset index, the keyword pre-filter and the match  *)
(* engine.                                                                 *)
(***************************************************************************)
\* A variant of LineStarts that begins a line after \r and \f too, as
\* str.splitlines does.
LineStartsEveryBreak(text) ==
  <<0>> \o Ascending({k \in 1..Len(text) : text[k] \in LineBreakChars})

\* line_starts: 0, and the offset after every \n.
LineStarts(text) == <<0>> \o Ascending({k \in 1..Len(text) : text[k] = "\n"})

\* bisect.bisect_right(a, x) on the ascending list a.
BisectRight(a, x) == Cardinality({k \in 1..Len(a) : a[k] <= x})

\* A variant of KeywordSkip that wants every keyword in the text (all for any).
KeywordSkipUnlessAll(element, text) ==
  /\ element.keywords # {}
  /\ ~\A kw \in element.keywords : Contains(Lower(text), kw)

\* The pre-filter: the element has keywords and none occurs in the text.
KeywordSkip(element, text) ==
  /\ element.keywords # {}
  /\ ~\E kw \in element.keywords : Contains(Lower(text), kw)

\* match.start() and match.group(0) of the spans <<start, end>>.
MatchesOfSpans(text, spans) ==
  [k \in 1..Len(spans) |->
     [start |-> spans[k][1], matched_text |-> Slice(text, spans[k][1], spans[k][2])]]

\* The matches of one pattern as [start, matched_text], in finditer's order.
PatternMatches(prog, text) == MatchesOfSpans(text, FindIter(prog, text))

\* A variant of ElementMatches that takes the patterns last to first.
ElementMatchesLastPatternFirst(patterns, text) ==
  ConcatAll([k \in 1..Len(patterns) |->
               PatternMatches(patterns[Len(patterns) + 1 - k].prog, text)])

\* The matches of all patterns of the element, in the order the two loops
\* meet them: pattern by pattern, left to right within a pattern.
ElementMatches(patterns, text) ==
  ConcatAll([k \in 1..Len(patterns) |-> PatternMatches(patterns[k].prog, text)])

\* The matches the loops do not pass over, each with its line number: a
\* match is passed over when its line is in matched_lines_for_element, and
\* its line is added to the set otherwise.
RECURSIVE FirstOnLine(_, _, _, _)
FirstOnLine(line_starts, matches, k, matched_lines) ==
  IF k > Len(matches) THEN <<>>
  ELSE LET line_number == BisectRight(line_starts, matches[k].start)
       IN  IF line_number \in matched_lines
           THEN FirstOnLine(line_starts, matches, k + 1, matched_lines)
           ELSE <<[start |-> matches[k].start,
                   matched_text |-> matches[k].matched_text,
                   line_number |-> line_number]>>
                \o FirstOnLine(line_starts, matches, k + 1,
                               matched_lines \cup {line_number})

\* lines[line_number - 1] if line_number <= len(lines) else ""
LineContent(lines, line_number) ==
  IF line_number <= Len(lines) THEN lines[line_number] ELSE <<>>

\* line_starts[line_number - 1] if line_number > 0 else 0
LineStart(line_starts, line_number) ==
  IF line_number > 0 THEN line_starts[line_number] ELSE 0

\* The rest of the loop body, the line of the match being known: the
\* findings it appends (none or one).
LineFindings(element, context, m, line_content, line_start) ==
  IF IsCommentLine(Strip(line_content)) THEN <<>>
  ELSE IF is_false_positive(line_content, m.matched_text, m.start, line_start)
       THEN <<>>
       ELSE <<[line_number |-> m.line_number,
               line_content |-> Strip(line_content),
               matched_text |-> m.matched_text,
               element_name |-> element.name,
               element_category |-> element.category,
               tags |-> element.tags,
               context |-> context,
               source |-> "Regex"]>>

\* What the loop body does with a match it does not pass over.
MatchFindings(element, text, context, m) ==
  LineFindings(element, context, m,
               LineContent(SplitLines(text), m.line_number),
               LineStart(LineStarts(text), m.line_number))

\* The loop body for each of the matches, in order.
MatchesFindings(element, text, context, matches) ==
  ConcatAll([k \in 1..Len(matches) |-> MatchFindings(element, text, context, matches[k])])

\* The matches with their line numbers, none passed over.
EveryMatch(line_starts, matches) ==
  [k \in 1..Len(matches) |->
     [start |-> matches[k].start,
      matched_text |-> matches[k].matched_text,
      line_number |-> BisectRight(line_starts, matches[k].start)]]

\* A variant of ElementFindings without matched_lines_for_element: every
\* match goes through the loop body.
ElementFindingsEveryMatch(element, text, context) ==
  MatchesFindings(element, text, context,
                  EveryMatch(LineStarts(text), ElementMatches(element.patterns, text)))

\* The findings of one element that the pre-filter did not skip: the two
\* loops over its patterns and their matches.
ElementFindings(element, text, context) ==
  MatchesFindings(element, text, context,
                  FirstOnLine(LineStarts(text), ElementMatches(element.patterns, text), 1, {}))

\* The loop over the elements.
ScanElements(elements, text, context) ==
  ConcatAll([k \in 1..Len(elements) |->
               IF KeywordSkip(elements[k], text) THEN <<>>
               ELSE ElementFindings(elements[k], text, context)])

\* scan_text(text, context)
scan_text(elements, text, context) ==
  IF text = <<>> THEN <<>> ELSE ScanElements(elements, text, context)

(***************************************************************************)
(* The inputs of the model: catalog pattern strings, catalog sources and   *)
(* files, and texts.                                                       *)
(***************************************************************************)
\* \w+@\w+\.\w+ : an e-mail address
PatAddress == <<"\\","w","+","@","\\","w","+","\\",".","\\","w","+">>

\* email : the identifier
PatEmailWord == <<"e","m","a","i","l">>

\* \d\d\d-\d\d : digits, no letter in the pattern
PatSsnDigits == <<"\\","d","\\","d","\\","d","-","\\","d","\\","d">>

PatSsnWord == <<"s","s","n">>

PatPhoneWord == <<"p","h","o","n","e">>

\* Three strings re.compile rejects: "missing )" twice, "nothing to repeat".
PatUnclosed == <<"(">>

PatUnclosedWord == <<"p","h","o","n","e","(">>

PatNothingToRepeat == <<"?","a">>

InvalidPatterns == {PatUnclosed, PatUnclosedWord, PatNothingToRepeat}

SrcEmailAddress ==
  [name |-> "Email Address", category |-> "Contact Info",
   patterns |-> <<PatAddress, PatEmailWord>>, tags |-> [sensitivity |-> "high"]]

SrcEmailIdent ==
  [name |-> "Email Identifier", category |-> "Contact Info",
   patterns |-> <<PatEmailWord, PatAddress>>]

SrcSsn ==
  [name |-> "SSN", category |-> "Government ID",
   patterns |-> <<PatUnclosedWord, PatSsnWord, PatNothingToRepeat, PatSsnDigits>>]

SrcAllInvalid ==
  [name |-> "Broken", category |-> "Other", patterns |-> <<PatUnclosed, PatNothingToRepeat>>]

SrcNoName == [category |-> "Contact Info", patterns |-> <<PatPhoneWord>>]

SrcNoNameInvalid == [category |-> "Other", patterns |-> <<PatUnclosed>>]

SrcNoPatterns == [name |-> "Empty", category |-> "Other", patterns |-> <<>>]

FileInvalidJson == [valid |-> FALSE]

FileOf(sources) == [valid |-> TRUE, sources |-> sources]

DirOf(files) == [exists |-> TRUE, files |-> files]

DirMissing == [exists |-> FALSE, files |-> <<>>]

\* The catalogs scanned with: element names are unique within each.
ScanDirs ==
  {DirOf(<<FileOf(<<SrcEmailAddress, SrcSsn>>)>>),
   DirOf(<<FileInvalidJson, FileOf(<<SrcEmailIdent>>)>>),
   DirMissing}

MaxBlankLines == 2

TextAddress == <<"a","l","i","c","e","@","e","x","a","m","p","l","e",".","c","o","m">>

LineCommentedEmail == <<"/","/"," ","e","m","a","i","l",":"," ","a","l","i","c","e","@","e","x","a","m","p","l","e",".","c","o","m">>

LineEmail == <<"e","m","a","i","l",":"," ","a","l","i","c","e","@","e","x","a","m","p","l","e",".","c","o","m">>

LineBareDeclaration == <<"c","o","n","s","t"," ","e","m","a","i","l",";">>

LineDeclaration == <<"c","o","n","s","t"," ","e","m","a","i","l"," ","="," ","\"","a","l","i","c","e","@","e","x","a","m","p","l","e",".","c","o","m","\"",";">>

LineThreeAddresses == <<"a","@","b",".","c"," ","a","@","b",".","c"," ","a","@","b",".","c">>

LineThreeWords == <<"e","m","a","i","l"," ","e","m","a","i","l"," ","e","m","a","i","l">>

LineTrailingComment == <<"x"," ","="," ","1"," ","#"," ","a","@","b",".","c">>

LineCarriageReturn == <<"p","\r","q">>

LineThreeNumbers == <<"1","2","3","-","4","5"," ","1","2","3","-","4","5"," ","1","2","3","-","4","5">>

LineIndented == <<" "," ","a","@","b",".","c"," "," ">>

LineBlockComment == <<"/","*"," ","a","@","b",".","c"," ","*","/"," ","a","@","b",".","c">>

LineBareSsn == <<"c","o","n","s","t"," ","s","s","n",";">>

LineSsnNumbers == <<"s","s","n"," ","1","2","3","-","4","5"," ","1","2","3","-","4","5"," ","1","2","3","-","4","5">>

LineHashThenSlashes == <<"x"," ","#"," ","a","@","b",".","c"," ","/","/"," ","y">>

LineSlashesThenHash == <<"x"," ","/","/"," ","a","@","b",".","c"," ","#"," ","y">>

LineSqlClosedString == <<"\"","S","E","L","E","C","T"," ","x","\""," ","a","@","b",".","c">>

LineSqlString == <<"S","E","L","E","C","T"," ","\"","a","@","b",".","c","\"">>

LineSqlBare == <<"S","E","L","E","C","T"," ","a","@","b",".","c">>

\* Lines for the comment and SQL rules of the false-positive filter.
FilterLines ==
  {LineHashThenSlashes, LineSlashesThenHash, LineSqlClosedString, LineSqlString,
   LineSqlBare}

Lines ==
  {LineCommentedEmail, LineEmail, LineBareDeclaration, LineDeclaration,
   LineThreeAddresses, LineThreeWords, LineTrailingComment, LineCarriageReturn,
   LineThreeNumbers, LineIndented, LineBlockComment, LineBareSsn, LineSsnNumbers}

BlankLines(k) == [j \in 1..k |-> "\n"]

\* One or two lines, or nothing.
Bodies == {<<>>} \cup Lines \cup {a \o <<"\n">> \o b : a, b \in Lines}

\* A body between up to MaxBlankLines blank lines on either side, and the
\* lines for the filter alone.
Texts ==
  {BlankLines(i) \o body \o BlankLines(j) : i, j \in 0..MaxBlankLines, body \in Bodies}
    \cup FilterLines

(***************************************************************************)
(* The state.                                                              *)
(***************************************************************************)
VARIABLES
  data_elements_dir,  \* the catalog directory: [exists, files]
  data_elements,      \* self.data_elements
  files_parsed,       \* the files _load_data_elements has passed to _parse_json_file
  pc,                 \* where the scanner's caller, or the call in progress, is
  text,               \* the text of the scan_text call
  findings,           \* what scan_text returned
  root,               \* what the path given to scan_directory names
  progress_callback,  \* "none", "returns" or "raises"
  files_to_scan,      \* scan_directory's list of paths
  index,              \* the files of files_to_scan the loop is done with
  all_findings,       \* scan_directory's accumulator
  progress_calls,     \* the calls made to progress_callback, in order
  scanned,            \* the paths passed to scan_file
  result,             \* what scan_directory returned
  loads,              \* how many times _load_data_elements has been called
  calls,              \* the calls made on the scanner and what its caller did, in order
  held,               \* the findings the caller holds, each with the dict its tags key names
  extensions,         \* the extensions argument of scan_directory
  selection,          \* per scanner, the paths its scan_directory passed to scan_file
  reports_subdir,     \* the names of the entries of the reports directory
  filename,           \* what get_next_report_filename returned last
  api,                \* the call of truscanner.api.scan: its arguments and where it is
  db,                 \* the call made on the DatabaseSchemaScanner and its result
  threads             \* per thread, the scan_directory call it is making

catalogVars == <<data_elements_dir, data_elements, files_parsed>>

textVars == <<text, findings>>

walkVars ==
  <<root, progress_callback, files_to_scan, index, all_findings, progress_calls,
    scanned, result>>

callVars == <<loads, calls, held>>

selectVars == <<extensions, selection>>

otherVars == <<reports_subdir, filename, api, db, threads>>

vars == <<catalogVars, pc, textVars, walkVars, callVars, selectVars, otherVars>>

\* An optional argument: not given (None), or given with a value.
None == [given |-> FALSE]

Some(v) == [given |-> TRUE, value |-> v]

\* A scan_directory that has not been called, one that returned after
\* passing the paths to scan_file, and one that raised.
NotCalled == [called |-> FALSE]

Passed(paths) == [called |-> TRUE, raised |-> FALSE, files |-> paths]

Raised == [called |-> TRUE, raised |-> TRUE, files |-> <<>>]

NotRun == [regex |-> NotCalled, ai |-> NotCalled, legacy |-> NotCalled, override |-> NotCalled]

NoPath == [kind |-> "missing"]

\* No report has been named, and no call of truscanner.api.scan, of the
\* DatabaseSchemaScanner or from a thread has been made.
NoOtherCall ==
  /\ reports_subdir = {}
  /\ filename = NotCalled
  /\ api = NotCalled
  /\ db = NotCalled
  /\ threads = <<>>

\* No scan_text call and no scan_directory call has been made.
NothingScanned ==
  /\ text = <<>>
  /\ findings = <<>>
  /\ files_to_scan = <<>>
  /\ index = 0
  /\ all_findings = <<>>
  /\ progress_calls = <<>>
  /\ scanned = <<>>
  /\ result = <<>>
  /\ calls = <<>>
  /\ held = <<>>
  /\ selection = NotRun

(***************************************************************************)
(* Scanning texts with a constructed scanner.                              *)
(***************************************************************************)
\* RegexScanner(data_elements_dir, load_immediately)
Init ==
  \E dir \in ScanDirs, load_immediately \in BOOLEAN :
    /\ data_elements_dir = dir
    /\ data_elements = IF load_immediately THEN load_data_elements(<<>>, dir) ELSE <<>>
    /\ loads = IF load_immediately THEN 1 ELSE 0
    /\ files_parsed = 0
    /\ pc = "idle"
    /\ root = NoPath
    /\ progress_callback = "none"
    /\ NothingScanned
    /\ NoOtherCall
    /\ extensions = None

\* findings = scanner.scan_text(text)
ScanText ==
  /\ pc = "idle"
  /\ \E t \in Texts :
       /\ text' = t
       /\ findings' = scan_text(data_elements, t, "")
  /\ pc' = "scanned"
  /\ UNCHANGED <<callVars, selectVars, otherVars>>
  /\ UNCHANGED <<catalogVars, walkVars>>

\* The caller is done with the findings.
ReturnFindings ==
  /\ pc = "scanned"
  /\ pc' = "idle"
  /\ text' = <<>>
  /\ findings' = <<>>
  /\ UNCHANGED <<callVars, selectVars, otherVars>>
  /\ UNCHANGED <<catalogVars, walkVars>>

Next == ScanText \/ ReturnFindings

Spec == Init /\ [][Next]_vars

(***************************************************************************)
(* Loading a catalog, one file at a time.                                  *)
(***************************************************************************)
MaxSources == 2

Sources ==
  {SrcEmailAddress, SrcEmailIdent, SrcSsn, SrcAllInvalid, SrcNoName, SrcNoNameInvalid,
   SrcNoPatterns}

\* The lists of one to MaxSources sources.
SourceLists == UNION {[1..n -> Sources] : n \in 1..MaxSources}

FileEmail == FileOf(<<SrcEmailAddress>>)

\* A catalog file alone, or beside an unreadable file or a sound one, on
\* either side; a directory that is missing; one without files.
LoadDirs ==
  {DirMissing, DirOf(<<>>), DirOf(<<FileInvalidJson>>)}
    \cup UNION {{DirOf(<<FileOf(l)>>),
                 DirOf(<<FileInvalidJson, FileOf(l)>>), DirOf(<<FileOf(l), FileInvalidJson>>),
                 DirOf(<<FileEmail, FileOf(l)>>), DirOf(<<FileOf(l), FileEmail>>)} :
                  l \in SourceLists}

\* RegexScanner(data_elements_dir): the constructor has set data_elements to
\* [] and is about to call _load_data_elements.
InitLoad ==
  \E dir \in LoadDirs :
    /\ data_elements_dir = dir
    /\ data_elements = <<>>
    /\ loads = 1
    /\ files_parsed = 0
    /\ pc = "loading"
    /\ root = NoPath
    /\ progress_callback = "none"
    /\ NothingScanned
    /\ NoOtherCall
    /\ extensions = None

\* One turn of the loop of _load_data_elements: _parse_json_file(json_file).
ParseJsonFile ==
  /\ pc = "loading"
  /\ data_elements_dir.exists
  /\ files_parsed < Len(data_elements_dir.files)
  /\ data_elements' = parse_json_file(data_elements, data_elements_dir.files[files_parsed + 1])
  /\ files_parsed' = files_parsed + 1
  /\ UNCHANGED <<callVars, selectVars, otherVars>>
  /\ UNCHANGED <<data_elements_dir, pc, textVars, walkVars>>

\* _load_data_elements returns: the directory is missing or has no file left.
FinishLoad ==
  /\ pc = "loading"
  /\ ~data_elements_dir.exists \/ files_parsed = Len(data_elements_dir.files)
  /\ pc' = "loaded"
  /\ UNCHANGED <<callVars, selectVars, otherVars>>
  /\ UNCHANGED <<catalogVars, textVars, walkVars>>

NextLoad == ParseJsonFile \/ FinishLoad

SpecLoad == InitLoad /\ [][NextLoad]_vars

(***************************************************************************)
(* scan_file and scan_directory.  A file is [name, readable, content]; a   *)
(* directory is [name, files, dirs], files and dirs in the order the       *)
(* operating system lists them.                                            *)
(***************************************************************************)
DEFAULT_EXCLUDE_DIRS ==
  {<<".","c","a","c","h","e">>, <<".","g","i","t">>, <<".","n","e","x","t">>,
   <<".","v","e","n","v">>, <<"_","_","p","y","c","a","c","h","e","_","_">>,
   <<"b","u","i","l","d">>, <<"d","i","s","t">>,
   <<"n","o","d","e","_","m","o","d","u","l","e","s">>, <<"r","e","p","o","r","t","s">>,
   <<"v","e","n","v">>}

DEFAULT_CODE_EXTENSIONS ==
  {<<".","b","a","s","h">>, <<".","b","a","t">>, <<".","c">>, <<".","c","c">>,
   <<".","c","j","s">>, <<".","c","m","d">>, <<".","c","p","p">>, <<".","c","s">>,
   <<".","c","x","x">>, <<".","d","a","r","t">>, <<".","g","o">>, <<".","h">>, <<".","h","h">>,
   <<".","h","p","p">>, <<".","h","x","x">>, <<".","j","a","v","a">>, <<".","j","s">>,
   <<".","j","s","x">>, <<".","k","t">>, <<".","k","t","s">>, <<".","l","u","a">>,
   <<".","m","j","s">>, <<".","p","h","p">>, <<".","p","l">>, <<".","p","m">>,
   <<".","p","s","1">>, <<".","p","y">>, <<".","p","y","i">>, <<".","r">>, <<".","r","b">>,
   <<".","r","s">>, <<".","s","c">>, <<".","s","c","a","l","a">>, <<".","s","h">>,
   <<".","s","q","l">>, <<".","s","v","e","l","t","e">>, <<".","s","w","i","f","t">>,
   <<".","t","s">>, <<".","t","s","x">>, <<".","v","u","e">>, <<".","z","s","h">>}

DEFAULT_EXCLUDE_FILES ==
  {<<".","D","S","_","S","t","o","r","e">>, <<"b","u","n",".","l","o","c","k">>,
   <<"e","s","l","i","n","t",".","c","o","n","f","i","g",".","j","s">>,
   <<"p","a","c","k","a","g","e","-","l","o","c","k",".","j","s","o","n">>,
   <<"p","a","c","k","a","g","e",".","j","s","o","n">>,
   <<"p","n","p","m","-","l","o","c","k",".","y","a","m","l">>,
   <<"t","a","i","l","w","i","n","d",".","c","o","n","f","i","g",".","j","s">>,
   <<"t","a","i","l","w","i","n","d",".","c","o","n","f","i","g",".","t","s">>,
   <<"t","s","c","o","n","f","i","g",".","a","p","p",".","j","s","o","n">>,
   <<"t","s","c","o","n","f","i","g",".","j","s","o","n">>,
   <<"t","s","c","o","n","f","i","g",".","n","o","d","e",".","j","s","o","n">>,
   <<"v","i","t","e",".","c","o","n","f","i","g",".","j","s">>,
   <<"v","i","t","e",".","c","o","n","f","i","g",".","t","s">>,
   <<"y","a","r","n",".","l","o","c","k">>}

DEFAULT_EXCLUDE_EXTENSIONS ==
  {<<".","b","i","n">>, <<".","c","s","s">>, <<".","d","b">>, <<".","d","l","l">>,
   <<".","d","y","l","i","b">>, <<".","e","x","e">>, <<".","g","i","f">>, <<".","g","z">>,
   <<".","i","c","o">>, <<".","j","p","e","g">>, <<".","j","p","g">>, <<".","l","o","g">>,
   <<".","p","d","f">>, <<".","p","n","g">>, <<".","s","o">>, <<".","s","q","l","i","t","e">>,
   <<".","s","q","l","i","t","e","3">>, <<".","s","v","g">>, <<".","t","a","r">>,
   <<".","z","i","p">>}

\* Path(file).suffix: from the last dot on, unless the dot is the first or
\* the last character of the name.
SuffixFrom(name, i) ==
  IF 0 < i /\ i < Len(name) - 1 THEN SliceFrom(name, i) ELSE <<>>

Suffix(name) == SuffixFrom(name, RFind(name, <<".">>))

\* os.path.join(root, file)
JoinPath(path, name) ==
  IF path # <<>> /\ path[Len(path)] = "/" THEN path \o name ELSE path \o <<"/">> \o name

\* The filter of the loop over the files of a directory, with the extension
\* taken as it is written in the name.
KeepFileCaseSensitive(file, allowed_extensions) ==
  /\ ~(StartsWith(file, <<".">>) \/ file \in DEFAULT_EXCLUDE_FILES)
  /\ Suffix(file) \notin DEFAULT_EXCLUDE_EXTENSIONS
  /\ Suffix(file) \in allowed_extensions

\* The filter of the loop over the files of a directory.
KeepFile(file, allowed_extensions) ==
  /\ ~(StartsWith(file, <<".">>) \/ file \in DEFAULT_EXCLUDE_FILES)
  /\ Lower(Suffix(file)) \notin DEFAULT_EXCLUDE_EXTENSIONS
  /\ Lower(Suffix(file)) \in allowed_extensions

\* A variant of KeepDir that prunes the directories named in exclude_dirs
\* only.
KeepDirUnlessNamed(d, exclude_dirs) == d \notin exclude_dirs

\* dirs[:] = [d for d in dirs if d not in exclude_dirs and not d.startswith('.')]
KeepDir(d, exclude_dirs) == d \notin exclude_dirs /\ ~StartsWith(d, <<".">>)

\* The paths the loop over files appends for one directory.
KeptFiles(path, files, allowed_extensions) ==
  ConcatAll([k \in 1..Len(files) |->
               IF KeepFile(files[k].name, allowed_extensions)
               THEN <<JoinPath(path, files[k].name)>> ELSE <<>>])

\* The loop over os.walk(path), top-down: the files of the directory, then
\* the directories it keeps, each with all below it.
RECURSIVE Walk(_, _, _, _)
Walk(path, directory, exclude_dirs, allowed_extensions) ==
  KeptFiles(path, directory.files, allowed_extensions)
    \o ConcatAll([k \in 1..Len(directory.dirs) |->
                    IF KeepDir(directory.dirs[k].name, exclude_dirs)
                    THEN Walk(JoinPath(path, directory.dirs[k].name), directory.dirs[k],
                              exclude_dirs, allowed_extensions)
                    ELSE <<>>])

\* The file system below a directory: every file with its path and the
\* names of the directories between the directory and the file.
RECURSIVE FileEntries(_, _, _)
FileEntries(path, above, directory) ==
  {[path |-> JoinPath(path, directory.files[k].name), dirs |-> above,
    file |-> directory.files[k]] : k \in 1..Len(directory.files)}
    \cup UNION {FileEntries(JoinPath(path, directory.dirs[k].name),
                            Append(above, directory.dirs[k].name), directory.dirs[k]) :
                  k \in 1..Len(directory.dirs)}

\* The file that open(filepath) finds below the directory.
OpenFile(directory, filepath) ==
  (CHOOSE e \in FileEntries(directory.name, <<>>, directory) : e.path = filepath).file

\* finding["filename"] = filepath, for each finding.
WithFilename(fs, filepath) ==
  [k \in 1..Len(fs) |->
     [line_number |-> fs[k].line_number,
      line_content |-> fs[k].line_content,
      matched_text |-> fs[k].matched_text,
      element_name |-> fs[k].element_name,
      element_category |-> fs[k].element_category,
      tags |-> fs[k].tags,
      context |-> fs[k].context,
      source |-> fs[k].source,
      filename |-> filepath]]

\* scan_file(filepath): open or read raising is caught and gives [].
scan_file(elements, filepath, file) ==
  IF ~file.readable THEN <<>>
  ELSE WithFilename(scan_text(elements, file.content, filepath), filepath)

MaxDepth == 2

FileApp == [name |-> <<"a","p","p",".","p","y">>, readable |-> TRUE, content |-> LineEmail]

FileScript == [name |-> <<"s","c","r","i","p","t",".","J","S">>, readable |-> TRUE, content |-> LineDeclaration]

FileNative == [name |-> <<"n","a","t","i","v","e",".","c">>, readable |-> TRUE, content |-> LineBareDeclaration]

FileReadme == [name |-> <<"R","E","A","D","M","E",".","m","d">>, readable |-> TRUE, content |-> LineEmail]

FileData == [name |-> <<"d","a","t","a",".","j","s","o","n">>, readable |-> TRUE, content |-> LineEmail]

FileLogo == [name |-> <<"l","o","g","o",".","p","n","g">>, readable |-> TRUE, content |-> LineEmail]

FileHidden == [name |-> <<".","e","n","v",".","p","y">>, readable |-> TRUE, content |-> LineEmail]

FileViteConfig == [name |-> <<"v","i","t","e",".","c","o","n","f","i","g",".","t","s">>, readable |-> TRUE, content |-> LineEmail]

FileMakefile == [name |-> <<"M","a","k","e","f","i","l","e">>, readable |-> TRUE, content |-> LineEmail]

\* A file that open() refuses.
FileLocked == [name |-> <<"s","e","c","r","e","t",".","p","y">>, readable |-> FALSE, content |-> <<>>]

RootFileLists ==
  {<<>>,
   <<FileApp, FileReadme, FileScript, FileData, FileNative, FileLogo>>,
   <<FileApp, FileLocked, FileScript>>,
   <<FileLocked, FileApp>>,
   <<FileScript, FileLocked>>,
   <<FileHidden, FileViteConfig, FileMakefile, FileApp>>,
   <<FileLogo, FileNative>>}

InnerFileLists == {<<FileApp>>, <<FileLocked, FileScript, FileReadme>>}

DirNames == {<<"s","r","c">>, <<"n","o","d","e","_","m","o","d","u","l","e","s">>, <<".","c","f","g">>, <<"R","e","p","o","r","t","s">>}

\* The directories names[k], names[k+1], ... one inside the other, each
\* holding the files.
RECURSIVE Nested(_, _, _)
Nested(names, k, files) ==
  [name |-> names[k], files |-> files,
   dirs |-> IF k = Len(names) THEN <<>> ELSE <<Nested(names, k + 1, files)>>]

DirLib == [name |-> <<"l","i","b">>, files |-> <<FileNative>>, dirs |-> <<>>]

RootName == <<"p","r","o","j">>

\* A directory with its own files, and possibly up to MaxDepth directories
\* one inside the other beside a directory lib.
DirRoots ==
  {[kind |-> "dir", name |-> RootName, files |-> fs, dirs |-> <<>>] : fs \in RootFileLists}
    \cup {[kind |-> "dir", name |-> RootName, files |-> fs,
           dirs |-> <<Nested(names, 1, inner), DirLib>>] :
            fs \in RootFileLists, inner \in InnerFileLists,
            names \in UNION {[1..n -> DirNames] : n \in 1..MaxDepth}}

FileRoots ==
  {[kind |-> "file", name |-> f.name, readable |-> f.readable, content |-> f.content] :
     f \in {FileApp, FileReadme, FileLocked}}

Roots == {NoPath} \cup FileRoots \cup DirRoots

WalkCatalog == DirOf(<<FileOf(<<SrcEmailAddress>>)>>)

\* A scanner, loaded or not, and a call scan_directory(directory,
\* progress_callback=...) about to be made.
InitWalk ==
  \E r \in Roots, callback \in {"none", "returns", "raises"}, load_immediately \in BOOLEAN :
    /\ data_elements_dir = WalkCatalog
    /\ data_elements = IF load_immediately THEN load_data_elements(<<>>, WalkCatalog) ELSE <<>>
    /\ loads = IF load_immediately THEN 1 ELSE 0
    /\ files_parsed = 0
    /\ pc = "called"
    /\ root = r
    /\ progress_callback = callback
    /\ NothingScanned
    /\ NoOtherCall
    /\ extensions = None

\* if not path.exists(): return []
PathNotFound ==
  /\ pc = "called"
  /\ root.kind = "missing"
  /\ result' = <<>>
  /\ pc' = "returned"
  /\ UNCHANGED <<callVars, selectVars, otherVars>>
  /\ UNCHANGED <<catalogVars, textVars, root, progress_callback, files_to_scan, index,
                 all_findings, progress_calls, scanned>>

\* if path.is_file(): return self.scan_file(str(path))
ScanSingleFile ==
  /\ pc = "called"
  /\ root.kind = "file"
  /\ scanned' = <<root.name>>
  /\ result' = scan_file(data_elements, root.name, root)
  /\ pc' = "returned"
  /\ UNCHANGED <<callVars, selectVars, otherVars>>
  /\ UNCHANGED <<catalogVars, textVars, root, progress_callback, files_to_scan, index,
                 all_findings, progress_calls>>

\* The walk that fills files_to_scan, and the load of the catalog if
\* data_elements is empty.
EnumerateFiles ==
  /\ pc = "called"
  /\ root.kind = "dir"
  /\ files_to_scan' = Walk(root.name, root, DEFAULT_EXCLUDE_DIRS, DEFAULT_CODE_EXTENSIONS)
  /\ data_elements' = IF data_elements = <<>>
                      THEN load_data_elements(data_elements, data_elements_dir)
                      ELSE data_elements
  /\ loads' = IF data_elements = <<>> THEN loads + 1 ELSE loads
  /\ pc' = "scanning"
  /\ UNCHANGED <<calls, held, selectVars, otherVars>>
  /\ UNCHANGED <<data_elements_dir, files_parsed, textVars, root, progress_callback, index,
                 all_findings, progress_calls, scanned, result>>

\* progress_callback(index, total_files, file_path), with what the callback
\* finds done when it is called (the paths scan_file has been given so far)
\* and whether it raised.
ProgressCall(i, total_files, file_path, done, raised) ==
  [index |-> i, total |-> total_files, file_path |-> file_path, scanned |-> done,
   raised |-> raised]

\* A variant of ScanNextFile in which an exception of the progress callback
\* is not caught and leaves scan_directory before the file is scanned.
ScanNextFileCallbackUncaught ==
  /\ pc = "scanning"
  /\ index < Len(files_to_scan)
  /\ progress_calls' =
       IF progress_callback = "none" THEN progress_calls
       ELSE Append(progress_calls,
                   ProgressCall(index + 1, Len(files_to_scan), files_to_scan[index + 1],
                                scanned, progress_callback = "raises"))
  /\ IF progress_callback = "raises"
     THEN /\ pc' = "raised"
          /\ UNCHANGED <<index, scanned, all_findings>>
     ELSE /\ pc' = pc
          /\ index' = index + 1
          /\ scanned' = Append(scanned, files_to_scan[index + 1])
          /\ all_findings' =
               all_findings \o scan_file(data_elements, files_to_scan[index + 1],
                                         OpenFile(root, files_to_scan[index + 1]))
  /\ UNCHANGED <<callVars, selectVars, otherVars>>
  /\ UNCHANGED <<catalogVars, textVars, root, progress_callback, files_to_scan, result>>

\* A variant of ScanNextFile in which the failure of a file is not caught
\* and leaves scan_directory.
ScanNextFileUncaught ==
  /\ pc = "scanning"
  /\ index < Len(files_to_scan)
  /\ index' = index + 1
  /\ progress_calls' =
       IF progress_callback = "none" THEN progress_calls
       ELSE Append(progress_calls,
                   ProgressCall(index + 1, Len(files_to_scan), files_to_scan[index + 1],
                                scanned, progress_callback = "raises"))
  /\ scanned' = Append(scanned, files_to_scan[index + 1])
  /\ IF OpenFile(root, files_to_scan[index + 1]).readable
     THEN /\ all_findings' =
               all_findings \o scan_file(data_elements, files_to_scan[index + 1],
                                         OpenFile(root, files_to_scan[index + 1]))
          /\ pc' = pc
     ELSE /\ all_findings' = all_findings
          /\ pc' = "raised"
  /\ UNCHANGED <<callVars, selectVars, otherVars>>
  /\ UNCHANGED <<catalogVars, textVars, root, progress_callback, files_to_scan, result>>

\* One turn of the loop over files_to_scan: the progress callback, whose
\* exception is dropped, then scan_file and all_findings.extend.
ScanNextFile ==
  /\ pc = "scanning"
  /\ index < Len(files_to_scan)
  /\ index' = index + 1
  /\ progress_calls' =
       IF progress_callback = "none" THEN progress_calls
       ELSE Append(progress_calls,
                   ProgressCall(index + 1, Len(files_to_scan), files_to_scan[index + 1],
                                scanned, progress_callback = "raises"))
  /\ scanned' = Append(scanned, files_to_scan[index + 1])
  /\ all_findings' =
       all_findings \o scan_file(data_elements, files_to_scan[index + 1],
                                 OpenFile(root, files_to_scan[index + 1]))
  /\ UNCHANGED <<callVars, selectVars, otherVars>>
  /\ UNCHANGED <<catalogVars, pc, textVars, root, progress_callback, files_to_scan, result>>

\* return all_findings
ReturnAllFindings ==
  /\ pc = "scanning"
  /\ index = Len(files_to_scan)
  /\ result' = all_findings
  /\ pc' = "returned"
  /\ UNCHANGED <<callVars, selectVars, otherVars>>
  /\ UNCHANGED <<catalogVars, textVars, root, progress_callback, files_to_scan, index,
                 all_findings, progress_calls, scanned>>

NextWalk ==
  PathNotFound \/ ScanSingleFile \/ EnumerateFiles \/ ScanNextFile \/ ReturnAllFindings

SpecWalk == InitWalk /\ [][NextWalk]_vars

(***************************************************************************)
(* Sequences of calls on one scanner, each call as one step, and what the  *)
(* caller does with the findings between the calls.  A finding is a dict   *)
(* of its own; the value of its tags key is the dict element.get("tags",   *)
(* {}) returns, which is the tags dict of the element in self.data_elements *)
(* (the loader gives every element one).  The caller holds each finding    *)
(* with the index of the element whose tags dict it names.                 *)
(***************************************************************************)
MaxCalls == 2

\* For each finding of scan_text, in order, the element it comes from.
FindingOwners(elements, content) ==
  IF content = <<>> THEN <<>>
  ELSE ConcatAll([e \in 1..Len(elements) |->
                    IF KeywordSkip(elements[e], content) THEN <<>>
                    ELSE [k \in 1..Len(ElementFindings(elements[e], content, "")) |-> e]])

\* The same for the findings of scan_file.
FileOwners(elements, file) ==
  IF ~file.readable THEN <<>> ELSE FindingOwners(elements, file.content)

\* The findings as the caller receives them.
HeldFindings(fs, owners) ==
  [k \in 1..Len(fs) |-> [finding |-> fs[k], tags_of |-> owners[k]]]

\* What the caller reads in a finding it holds.
Read(elements, h) == [h.finding EXCEPT !.tags = elements[h.tags_of].tags]

\* d[key] = value
SetItem(d, key, value) ==
  [k \in (DOMAIN d) \cup {key} |-> IF k = key THEN value ELSE d[k]]

CallCatalog == DirOf(<<FileOf(<<SrcEmailAddress, SrcSsn>>)>>)

\* A variant of EnsureLoaded that falls back on a catalog of its own when
\* the catalog directory is missing.
EnsureLoadedOrBuiltIn(elements, dir) ==
  IF elements = <<>>
  THEN load_data_elements(elements, IF dir.exists THEN dir ELSE CallCatalog)
  ELSE elements

\* if not self.data_elements: self._load_data_elements()
EnsureLoaded(elements, dir) ==
  IF elements = <<>> THEN load_data_elements(elements, dir) ELSE elements

\* The loop of scan_directory over files_to_scan, without a callback.
DirectoryFindings(elements, directory, files) ==
  ConcatAll([k \in 1..Len(files) |->
               scan_file(elements, files[k], OpenFile(directory, files[k]))])

DirectoryOwners(elements, directory, files) ==
  ConcatAll([k \in 1..Len(files) |->
               FileOwners(elements, OpenFile(directory, files[k]))])

\* The tree the calls scan, and the files scan_file is called for.
CallTree ==
  [kind |-> "dir", name |-> RootName, files |-> <<FileApp, FileLocked, FileScript>>,
   dirs |-> <<DirLib>>]

CallFiles == {FileApp, FileLocked}

CallRoots ==
  {NoPath, CallTree,
   [kind |-> "file", name |-> JoinPath(RootName, FileApp.name), readable |-> TRUE,
    content |-> FileApp.content]}

CallTexts == {<<>>, LineEmail, LineThreeAddresses}

ScanOps == {"scan_text", "scan_file", "scan_directory"}

\* A call returns: the scanner's list, the log of the calls and the
\* findings the caller holds.
Returned(op, arg, elements, fs, owners) ==
  /\ data_elements' = elements
  /\ calls' = Append(calls, [op |-> op, arg |-> arg, loaded |-> loads > 0,
                             before |-> data_elements, after |-> elements,
                             result |-> fs, raised |-> FALSE])
  /\ held' = held \o HeldFindings(fs, owners)

\* scanner.scan_text(text)
CallScanText ==
  /\ pc = "idle"
  /\ Len(calls) < MaxCalls
  /\ \E t \in CallTexts :
       Returned("scan_text", t, data_elements, scan_text(data_elements, t, ""),
                FindingOwners(data_elements, t))
  /\ UNCHANGED <<data_elements_dir, files_parsed, loads, pc, textVars, walkVars, selectVars, otherVars>>

\* A variant of CallScanFile that remembers the files it has scanned and
\* reports nothing for a file scanned before.
CallScanFileOnce ==
  /\ pc = "idle"
  /\ Len(calls) < MaxCalls
  /\ \E f \in CallFiles :
       IF \E c \in DOMAIN calls : calls[c].op = "scan_file" /\ calls[c].arg = f.name
       THEN Returned("scan_file", f.name, data_elements, <<>>, <<>>)
       ELSE Returned("scan_file", f.name, data_elements,
                     scan_file(data_elements, JoinPath(RootName, f.name), f),
                     FileOwners(data_elements, f))
  /\ UNCHANGED <<data_elements_dir, files_parsed, loads, pc, textVars, walkVars, selectVars, otherVars>>

\* scanner.scan_file(filepath), for a file of the tree
CallScanFile ==
  /\ pc = "idle"
  /\ Len(calls) < MaxCalls
  /\ \E f \in CallFiles :
       Returned("scan_file", f.name, data_elements,
                scan_file(data_elements, JoinPath(RootName, f.name), f),
                FileOwners(data_elements, f))
  /\ UNCHANGED <<data_elements_dir, files_parsed, loads, pc, textVars, walkVars, selectVars, otherVars>>

\* The loop of scan_directory with the list the call has ensured.
ReturnedDirectory(r, elements, files) ==
  Returned("scan_directory", r, elements, DirectoryFindings(elements, r, files),
           DirectoryOwners(elements, r, files))

\* scanner.scan_directory(directory), with the default settings
CallScanDirectory ==
  /\ pc = "idle"
  /\ Len(calls) < MaxCalls
  /\ \E r \in CallRoots :
       CASE r.kind = "missing" ->
              /\ Returned("scan_directory", r, data_elements, <<>>, <<>>)
              /\ loads' = loads
         [] r.kind = "file" ->
              /\ Returned("scan_directory", r, data_elements,
                          scan_file(data_elements, r.name, r), FileOwners(data_elements, r))
              /\ loads' = loads
         [] r.kind = "dir" ->
              /\ ReturnedDirectory(r, EnsureLoaded(data_elements, data_elements_dir),
                                   Walk(r.name, r, DEFAULT_EXCLUDE_DIRS,
                                        DEFAULT_CODE_EXTENSIONS))
              /\ loads' = IF data_elements = <<>> THEN loads + 1 ELSE loads
  /\ UNCHANGED <<data_elements_dir, files_parsed, pc, textVars, walkVars, selectVars, otherVars>>

\* The caller: finding["tags"]["reviewed"] = True, for a finding it holds.
ModifyFindingTags ==
  /\ pc = "idle"
  /\ Len(calls) < MaxCalls
  /\ \E h \in DOMAIN held :
       /\ "reviewed" \notin DOMAIN data_elements[held[h].tags_of].tags
       /\ data_elements' =
            [data_elements EXCEPT ![held[h].tags_of].tags = SetItem(@, "reviewed", "True")]
       /\ calls' = Append(calls, [op |-> "modify_tags", arg |-> h, loaded |-> loads > 0,
                                  before |-> data_elements, after |-> data_elements',
                                  result |-> <<>>, raised |-> FALSE])
  /\ UNCHANGED <<data_elements_dir, files_parsed, loads, held, pc, textVars, walkVars,
                 selectVars, otherVars>>

\* Outside the scanner: the catalog directory, missing so far, is created
\* with a catalog file in it.
CatalogAppears ==
  /\ pc = "idle"
  /\ ~data_elements_dir.exists
  /\ data_elements_dir' = CallCatalog
  /\ UNCHANGED <<data_elements, files_parsed, pc, textVars, walkVars, callVars, selectVars, otherVars>>

NextCalls ==
  CallScanText \/ CallScanFile \/ CallScanDirectory \/ ModifyFindingTags \/ CatalogAppears

SpecCalls == Init /\ [][NextCalls]_vars

(***************************************************************************)
(* The files the three scan_directory functions pass to scan_file: that of *)
(* RegexScanner with an extensions argument, that of AIScanner and that of *)
(* the module scanner.py.                                                  *)
(***************************************************************************)
\* The loop body of _normalize_extensions once ext is stripped and
\* lower-cased.
NormalizedCandidate(candidate) ==
  IF candidate = <<>> THEN {}
  ELSE IF StartsWith(candidate, <<".">>) THEN {candidate}
       ELSE {<<".">> \o candidate}

\* RegexScanner._normalize_extensions(extensions)
normalize_extensions(exts) ==
  UNION {IF exts[k] = <<>> THEN {} ELSE NormalizedCandidate(Lower(Strip(exts[k]))) :
           k \in 1..Len(exts)}

\* allowed_extensions of RegexScanner.scan_directory
AllowedExtensions(exts) ==
  IF exts.given THEN normalize_extensions(exts.value) ELSE DEFAULT_CODE_EXTENSIONS

\* The paths RegexScanner.scan_directory(directory, extensions) passes to
\* scan_file.
RegexSelected(r, exts) ==
  CASE r.kind = "missing" -> <<>>
    [] r.kind = "file" -> <<r.name>>
    [] r.kind = "dir" -> Walk(r.name, r, DEFAULT_EXCLUDE_DIRS, AllowedExtensions(exts))

\* exclude_dirs = exclude_dirs or self.DEFAULT_EXCLUDE_DIRS
ExcludeDirs(exclude_dirs) ==
  IF exclude_dirs.given /\ exclude_dirs.value # {} THEN exclude_dirs.value
  ELSE DEFAULT_EXCLUDE_DIRS

\* The paths RegexScanner.scan_directory(directory, extensions, exclude_dirs)
\* passes to scan_file.
RegexSelectedExcluding(r, exts, exclude_dirs) ==
  CASE r.kind = "missing" -> <<>>
    [] r.kind = "file" -> <<r.name>>
    [] r.kind = "dir" -> Walk(r.name, r, ExcludeDirs(exclude_dirs), AllowedExtensions(exts))

\* A scan_directory that was given exclude_dirs and returned.
PassedExcluding(paths, exclude_dirs) ==
  [called |-> TRUE, raised |-> FALSE, files |-> paths, exclude_dirs |-> exclude_dirs]

\* A variant of AIAllowedExtensions that does not look at the argument.
AIAllowedExtensionsDefault(exts) == DEFAULT_CODE_EXTENSIONS

\* allowed_extensions of AIScanner.scan_directory
AIAllowedExtensions(exts) ==
  IF exts.given THEN normalize_extensions(exts.value) ELSE DEFAULT_CODE_EXTENSIONS

\* The loop over the files of one directory in AIScanner.scan_directory.
AIKeptFiles(path, files, allowed_extensions) ==
  ConcatAll([k \in 1..Len(files) |->
               IF StartsWith(files[k].name, <<".">>) \/ files[k].name \in DEFAULT_EXCLUDE_FILES
               THEN <<>>
               ELSE IF Lower(Suffix(files[k].name)) \in DEFAULT_EXCLUDE_EXTENSIONS THEN <<>>
               ELSE IF Lower(Suffix(files[k].name)) \notin allowed_extensions THEN <<>>
               ELSE <<JoinPath(path, files[k].name)>>])

\* The loop over os.walk(path) in AIScanner.scan_directory.
RECURSIVE AIWalk(_, _, _)
AIWalk(path, directory, allowed_extensions) ==
  AIKeptFiles(path, directory.files, allowed_extensions)
    \o ConcatAll([k \in 1..Len(directory.dirs) |->
                    IF /\ directory.dirs[k].name \notin DEFAULT_EXCLUDE_DIRS
                       /\ ~StartsWith(directory.dirs[k].name, <<".">>)
                    THEN AIWalk(JoinPath(path, directory.dirs[k].name), directory.dirs[k],
                                allowed_extensions)
                    ELSE <<>>])

\* files_to_scan of AIScanner.scan_directory: os.walk of a path that does
\* not exist gives nothing.
AISelected(r, exts) ==
  CASE r.kind = "file" -> <<r.name>>
    [] r.kind = "dir" -> AIWalk(r.name, r, AIAllowedExtensions(exts))
    [] OTHER -> <<>>

\* The loop over os.walk(directory) in scanner.scan_directory: every file
\* whose name does not start with a dot, in every directory.
RECURSIVE LegacyWalk(_, _)
LegacyWalk(path, directory) ==
  ConcatAll([k \in 1..Len(directory.files) |->
               IF ~StartsWith(directory.files[k].name, <<".">>)
               THEN <<JoinPath(path, directory.files[k].name)>> ELSE <<>>])
    \o ConcatAll([k \in 1..Len(directory.dirs) |->
                    LegacyWalk(JoinPath(path, directory.dirs[k].name), directory.dirs[k])])

\* scanner.scan_directory(directory) has the one parameter: a call with
\* use_ai raises TypeError.  os.walk of a file or of a missing path gives
\* nothing.
LegacySelected(r, use_ai) ==
  IF use_ai.given THEN Raised
  ELSE IF r.kind = "dir" THEN Passed(LegacyWalk(r.name, r)) ELSE Passed(<<>>)

ExtensionLists ==
  {<<>>,
   <<<<"p","y">>>>,
   <<<<".","J","S">>, <<>>>>,
   <<<<" ",".","c"," ">>, <<" ">>>>,
   <<<<".","m","d">>, <<"P","N","G">>>>,
   <<<<"p","y">>, <<".","p","n","g">>, <<"t","s">>>>}

ExtensionArgs == {None} \cup {Some(l) : l \in ExtensionLists}

\* A tree or a path, and the extensions argument that the calls are made
\* with.
InitSelect ==
  \E r \in Roots, exts \in ExtensionArgs :
    /\ data_elements_dir = WalkCatalog
    /\ data_elements = <<>>
    /\ loads = 0
    /\ files_parsed = 0
    /\ pc = "idle"
    /\ root = r
    /\ progress_callback = "none"
    /\ NothingScanned
    /\ NoOtherCall
    /\ extensions = exts

\* RegexScanner(...).scan_directory(directory, extensions=extensions)
RegexScanDirectory ==
  /\ ~selection.regex.called
  /\ selection' = [selection EXCEPT !.regex = Passed(RegexSelected(root, extensions))]
  /\ UNCHANGED <<catalogVars, pc, textVars, walkVars, callVars, extensions, otherVars>>

\* AIScanner(...).scan_directory(directory, extensions=extensions)
AIScanDirectory ==
  /\ ~selection.ai.called
  /\ selection' = [selection EXCEPT !.ai = Passed(AISelected(root, extensions))]
  /\ UNCHANGED <<catalogVars, pc, textVars, walkVars, callVars, extensions, otherVars>>

\* scanner.scan_directory(directory) and scanner.scan_directory(directory,
\* use_ai=False)
LegacyScanDirectory ==
  /\ ~selection.legacy.called
  /\ \E use_ai \in {None, Some(FALSE)} :
       selection' = [selection EXCEPT !.legacy = LegacySelected(root, use_ai)]
  /\ UNCHANGED <<catalogVars, pc, textVars, walkVars, callVars, extensions, otherVars>>

\* The exclude_dirs arguments: none, an empty set, sets of names.
ExcludeDirArgs ==
  {None, Some({}), Some({<<"s","r","c">>}), Some({<<"R","e","p","o","r","t","s">>, <<"l","i","b">>})}

\* RegexScanner(...).scan_directory(directory, extensions=extensions,
\* exclude_dirs=exclude_dirs)
RegexScanDirectoryExcluding ==
  /\ ~selection.override.called
  /\ \E exclude_dirs \in ExcludeDirArgs :
       selection' = [selection EXCEPT !.override =
                       PassedExcluding(RegexSelectedExcluding(root, extensions, exclude_dirs),
                                       exclude_dirs)]
  /\ UNCHANGED <<catalogVars, pc, textVars, walkVars, callVars, extensions, otherVars>>

NextSelect ==
  RegexScanDirectory \/ AIScanDirectory \/ LegacyScanDirectory \/ RegexScanDirectoryExcluding

SpecSelect == InitSelect /\ [][NextSelect]_vars

(***************************************************************************)
(* report_utils.get_next_report_filename and the reports directory.  An    *)
(* entry of the directory is [name, is_file].                              *)
(***************************************************************************)
MaxReportNumber == 10

MaxReports == 3

DigitOf == <<"0","1","2","3","4","5","6","7","8","9">>

\* str(n) in an f-string, for n >= 0.
RECURSIVE Decimal(_)
Decimal(n) ==
  IF n < 10 THEN <<DigitOf[n + 1]>> ELSE Decimal(n \div 10) \o <<DigitOf[(n % 10) + 1]>>

\* int(digits) for a run of decimal digits.
RECURSIVE IntOf(_)
IntOf(digits) ==
  IF digits = <<>> THEN 0
  ELSE 10 * IntOf(SubSeq(digits, 1, Len(digits) - 1))
         + (CHOOSE d \in 0..9 : DigitOf[d + 1] = digits[Len(digits)])

base_name == <<"t","r","u","s","c","a","n","_","r","e","p","o","r","t">>

\* extensions = {"txt": ".txt", "md": ".md", "json": ".json"}
ReportExtensions ==
  [txt |-> <<".","t","x","t">>, md |-> <<".","m","d">>, json |-> <<".","j","s","o","n">>]

\* ^truscan_report(\d+)<extension>$ , base name and extension escaped
ReportPattern(extension) ==
  Cat(<<Word(base_name), Plus(OneOf(DigitChars)), Word(extension)>>)

\* pattern.match(name): the pattern from the start of the name to its end
\* (no name here ends in a newline, before which $ matches too).
ReportMatches(name, extension) ==
  \E k \in DOMAIN Ends(ReportPattern(extension), name, 0, FALSE) :
    Ends(ReportPattern(extension), name, 0, FALSE)[k] = Len(name)

\* int(match.group(1))
ReportNumber(name, extension) ==
  IntOf(Slice(name, Len(base_name), Len(name) - Len(extension)))

\* A variant of HighestNumber that counts the numbered reports.
CountOfNumbered(entries, extension) ==
  Cardinality({e \in entries : e.is_file /\ ReportMatches(e.name, extension)})

\* max_num after the loop over reports_subdir.iterdir()
HighestNumber(entries, extension) ==
  LET numbers == {ReportNumber(e.name, extension) :
                    e \in {x \in entries : x.is_file /\ ReportMatches(x.name, extension)}}
  IN  IF numbers = {} THEN 0 ELSE CHOOSE n \in numbers : \A m \in numbers : m <= n

\* What a call of get_next_report_filename gave: the name, or ValueError.
Named(file_type, name) ==
  [called |-> TRUE, raised |-> FALSE, file_type |-> file_type, name |-> name]

InvalidFileType(file_type) ==
  [called |-> TRUE, raised |-> TRUE, file_type |-> file_type, name |-> <<>>]

\* get_next_report_filename(reports_subdir, file_type)
get_next_report_filename(entries, file_type) ==
  IF file_type \notin DOMAIN ReportExtensions THEN InvalidFileType(file_type)
  ELSE IF ~\E e \in entries : e.name = base_name \o ReportExtensions[file_type]
       THEN Named(file_type, base_name \o ReportExtensions[file_type])
       ELSE Named(file_type,
                  base_name \o Decimal(HighestNumber(entries, ReportExtensions[file_type]) + 1)
                    \o ReportExtensions[file_type])

FileTypes == {"txt", "md", "json", "pdf"}

\* Everything of the scanner is as constructed and unused.
ScannerIdle ==
  /\ data_elements_dir = DirMissing
  /\ data_elements = <<>>
  /\ loads = 0
  /\ files_parsed = 0
  /\ pc = "idle"
  /\ root = NoPath
  /\ progress_callback = "none"
  /\ NothingScanned
  /\ extensions = None

\* create_reports_subdirectory has made the directory; nothing is in it.
InitReports ==
  /\ ScannerIdle
  /\ reports_subdir = {}
  /\ filename = NotCalled
  /\ api = NotCalled
  /\ db = NotCalled
  /\ threads = <<>>

\* filename = get_next_report_filename(reports_subdir, ft)
NameReport ==
  /\ ~filename.called
  /\ \E ft \in FileTypes : filename' = get_next_report_filename(reports_subdir, ft)
  /\ UNCHANGED <<catalogVars, pc, textVars, walkVars, callVars, selectVars, reports_subdir,
                 api, db, threads>>

\* with open(reports_subdir / filename, 'w') as f: f.write(report)
SaveReport ==
  /\ filename.called /\ ~filename.raised
  /\ Cardinality(reports_subdir \cup {[name |-> filename.name, is_file |-> TRUE]}) <= MaxReports
  /\ HighestNumber(reports_subdir, ReportExtensions[filename.file_type]) < MaxReportNumber
  /\ reports_subdir' = reports_subdir \cup {[name |-> filename.name, is_file |-> TRUE]}
  /\ filename' = NotCalled
  /\ UNCHANGED <<catalogVars, pc, textVars, walkVars, callVars, selectVars, api, db, threads>>

\* The caller of get_next_report_filename gives the name up: the file type
\* was invalid, or the report is not written.
DropName ==
  /\ filename.called
  /\ filename' = NotCalled
  /\ UNCHANGED <<catalogVars, pc, textVars, walkVars, callVars, selectVars, reports_subdir,
                 api, db, threads>>

\* A report is deleted from the directory.
DeleteReport ==
  /\ ~filename.called
  /\ \E e \in reports_subdir : reports_subdir' = reports_subdir \ {e}
  /\ UNCHANGED <<catalogVars, pc, textVars, walkVars, callVars, selectVars, filename,
                 api, db, threads>>

NextReports == NameReport \/ SaveReport \/ DropName \/ DeleteReport

SpecReports == InitReports /\ [][NextReports]_vars

(***************************************************************************)
(* database/db_scanner.py: DatabaseSchemaScanner.  Its elements carry no   *)
(* keywords and their patterns are compiled with re.IGNORECASE; the        *)
(* RegexScanner it holds for the content of rows is loaded eagerly from    *)
(* the same directory.                                                     *)
(***************************************************************************)
\* The end of the loop body of DatabaseSchemaScanner._parse_json_file.
ColumnSourceElement(source, patterns) ==
  IF patterns = <<>> THEN [raised |-> FALSE, elements |-> <<>>]
  ELSE IF "name" \notin DOMAIN source \/ "category" \notin DOMAIN source
       THEN [raised |-> TRUE, elements |-> <<>>]
       ELSE [raised |-> FALSE,
             elements |-> <<[name |-> source.name,
                             category |-> source.category,
                             patterns |-> patterns,
                             tags |-> SourceGet(source, "tags", EmptyTags)]>>]

RECURSIVE ColumnParseSources(_, _, _)

ColumnParseSourcesAfter(elements, sources, k, r) ==
  IF r.raised THEN elements
  ELSE ColumnParseSources(elements \o r.elements, sources, k + 1)

\* The loop over the sources of one file.
ColumnParseSources(elements, sources, k) ==
  IF k > Len(sources) THEN elements
  ELSE ColumnParseSourcesAfter(
         elements, sources, k,
         ColumnSourceElement(sources[k],
                             CompiledPatterns(SourceGet(sources[k], "patterns", <<>>), 1)))

\* DatabaseSchemaScanner._parse_json_file
column_parse_json_file(elements, json_file) ==
  IF ~json_file.valid THEN elements
  ELSE ColumnParseSources(elements, SourceGet(json_file, "sources", <<>>), 1)

RECURSIVE ColumnLoadFiles(_, _, _)
ColumnLoadFiles(elements, files, k) ==
  IF k > Len(files) THEN elements
  ELSE ColumnLoadFiles(column_parse_json_file(elements, files[k]), files, k + 1)

\* DatabaseSchemaScanner._load_data_elements_for_columns
load_data_elements_for_columns(dir) ==
  IF dir.exists THEN ColumnLoadFiles(<<>>, dir.files, 1) ELSE <<>>

\* The characters of the element names of the modelled catalogs.
NameChars ==
  (("Email Address" :> <<"E","m","a","i","l"," ","A","d","d","r","e","s","s">>)
    @@ ("Work Email" :> <<"W","o","r","k"," ","E","m","a","i","l">>)
    @@ ("Email Open Rates" :> <<"E","m","a","i","l"," ","O","p","e","n"," ","R","a","t","e","s">>)
    @@ ("Phone Number" :> <<"P","h","o","n","e"," ","N","u","m","b","e","r">>)
    @@ ("SSN" :> <<"S","S","N">>)
    @@ ("Anything" :> <<"A","n","y","t","h","i","n","g">>)
    @@ ("phone" :> <<"p","h","o","n","e">>))

\* s.replace(" ", "_")
SpacesToUnderscores(s) == [k \in 1..Len(s) |-> IF s[k] = " " THEN "_" ELSE s[k]]

\* The priority the de-duplication loop leaves in the match.
Priority(element_name, column_name) ==
  (IF Lower(column_name) = SpacesToUnderscores(Lower(NameChars[element_name])) THEN 10 ELSE 0)
    + (IF Lower(column_name) = <<"e","m","a","i","l">> /\ element_name = "Email Address"
       THEN 20 ELSE 0)

\* The dict appended to matches, with the priority it ends with.
ColumnMatch(element, column_name) ==
  [element_name |-> element.name,
   element_category |-> element.category,
   matched_text |-> column_name,
   tags |-> element.tags,
   priority |-> Priority(element.name, column_name)]

\* pattern.search(column_name) for some pattern of the element.
ColumnMatchesElement(element, column_name) ==
  \E p \in DOMAIN element.patterns : Search(element.patterns[p].prog, column_name, TRUE)

\* The first loop of scan_column_name: one match for each element name with
\* a pattern found in the column name.
RECURSIVE ColumnMatches(_, _, _, _)
ColumnMatches(elements, column_name, k, seen_elements) ==
  IF k > Len(elements) THEN <<>>
  ELSE IF elements[k].name \in seen_elements
       THEN ColumnMatches(elements, column_name, k + 1, seen_elements)
       ELSE IF ColumnMatchesElement(elements[k], column_name)
            THEN <<ColumnMatch(elements[k], column_name)>>
                   \o ColumnMatches(elements, column_name, k + 1,
                                    seen_elements \cup {elements[k].name})
            ELSE ColumnMatches(elements, column_name, k + 1, seen_elements)

\* [m for m in matches if m["element_name"] == name]
MatchesNamed(matches, name) ==
  ConcatAll([k \in 1..Len(matches) |->
               IF matches[k].element_name = name THEN <<matches[k]>> ELSE <<>>])

\* The loop that fills filtered_matches.
FilteredMatches(matches, col) ==
  ConcatAll([k \in 1..Len(matches) |->
               IF /\ Contains(col, <<"e","m","a","i","l">>)
                  /\ \/ /\ matches[k].element_name = "Email Open Rates"
                        /\ ~Contains(col, <<"r","a","t","e">>)
                        /\ ~Contains(col, <<"o","p","e","n">>)
                     \/ /\ matches[k].element_name = "Work Email"
                        /\ ~Contains(col, <<"w","o","r","k">>)
                        /\ ~Contains(col, <<"j","o","b">>)
               THEN <<>> ELSE <<matches[k]>>])

\* A variant of FilteredOrAll that does not revert to matches.
FilteredOnly(matches, filtered_matches) == filtered_matches

\* if not filtered_matches and matches: filtered_matches = matches
FilteredOrAll(matches, filtered_matches) ==
  IF filtered_matches = <<>> /\ matches # <<>> THEN matches ELSE filtered_matches

\* The end of scan_column_name: the Email Address match if there is one,
\* else the first match left.
FirstOrEmailAddress(filtered_matches) ==
  IF MatchesNamed(filtered_matches, "Email Address") # <<>>
  THEN <<MatchesNamed(filtered_matches, "Email Address")[1]>>
  ELSE IF filtered_matches # <<>> THEN <<filtered_matches[1]>> ELSE <<>>

\* scan_column_name after the first loop.  (The loop over best_match and
\* highest_score assigns nothing that is used.)
ChooseColumnMatch(matches, col) ==
  IF matches = <<>> THEN <<>>
  ELSE IF col = <<"e","m","a","i","l">> /\ MatchesNamed(matches, "Email Address") # <<>>
       THEN MatchesNamed(matches, "Email Address")
       ELSE IF /\ col \in {<<"p","h","o","n","e">>, <<"m","o","b","i","l","e">>}
               /\ MatchesNamed(matches, "Phone Number") # <<>>
            THEN MatchesNamed(matches, "Phone Number")
            ELSE FirstOrEmailAddress(FilteredOrAll(matches, FilteredMatches(matches, col)))

\* scan_column_name(column_name)
scan_column_name(elements, column_name) ==
  IF column_name = <<>> THEN <<>>
  ELSE ChooseColumnMatch(ColumnMatches(elements, column_name, 1, {}), Lower(column_name))

\* A value of a row: None, a string or a non-negative integer; str(val).
NoneValue == [type |-> "None"]

StrValue(s) == [type |-> "str", value |-> s]

IntValue(n) == [type |-> "int", number |-> n]

ValueStr(val) == IF val.type = "int" THEN Decimal(val.number) ELSE val.value

\* The dict appended to findings for the finding f of scan_text on a value
\* of the column; schema is None.
ContentFinding(table, col_name, f) ==
  [schema_name |-> "default",
   table_name |-> table,
   column_name |-> col_name,
   column_type |-> "Unknown (Content)",
   element_name |-> f.element_name,
   element_category |-> f.element_category,
   matched_text |-> f.matched_text,
   source |-> "Content",
   tags |-> f.tags]

ContentFindings(table, col_name, val_findings) ==
  [k \in 1..Len(val_findings) |-> ContentFinding(table, col_name, val_findings[k])]

\* The body of the loop over row.items(): item is <<col_name, val>>.
ValueFindings(elements, table, item) ==
  IF item[2].type = "None" THEN <<>>
  ELSE IF Len(ValueStr(item[2])) < 4 THEN <<>>
       ELSE ContentFindings(table, item[1], scan_text(elements, ValueStr(item[2]), ""))

RowFindings(elements, table, row) ==
  ConcatAll([k \in 1..Len(row) |-> ValueFindings(elements, table, row[k])])

\* The loops over the rows and their items.
RowsFindings(elements, table, rows) ==
  ConcatAll([k \in 1..Len(rows) |-> RowFindings(elements, table, rows[k])])

\* A variant of UniqueFindings that keeps every finding.
AllFindings(fs) == fs

\* list(unique_findings.values()): the first finding of each
\* (column_name, element_name), in the order of their first findings.
UniqueFindings(fs) ==
  ConcatAll([k \in 1..Len(fs) |->
               IF \E j \in 1..(k - 1) : /\ fs[j].column_name = fs[k].column_name
                                        /\ fs[j].element_name = fs[k].element_name
               THEN <<>> ELSE <<fs[k]>>])

\* scan_table_content(adapter, table): sample is what
\* adapter.get_sample_data gave, rows or an exception; every exception is
\* caught and gives [].
scan_table_content(elements, table, sample) ==
  IF sample.raised THEN <<>>
  ELSE IF sample.rows = <<>> THEN <<>>
       ELSE UniqueFindings(RowsFindings(elements, table, sample.rows))

SrcWorkEmail == [name |-> "Work Email", category |-> "Contact Info", patterns |-> <<PatEmailWord>>]

SrcEmailOpenRates ==
  [name |-> "Email Open Rates", category |-> "Marketing", patterns |-> <<PatEmailWord>>]

\* phone|mobile
PatPhoneOrMobile == <<"p","h","o","n","e","|","m","o","b","i","l","e">>

SrcPhoneNumber ==
  [name |-> "Phone Number", category |-> "Contact Info", patterns |-> <<PatPhoneOrMobile>>]

\* A second source of the name Email Address.
SrcEmailAgain ==
  [name |-> "Email Address", category |-> "Contact Info", patterns |-> <<<<"m","a","i","l">>>>]

\* \d* : found in every string, the empty one too
PatDigitsOrNothing == <<"\\","d","*">>

SrcAnything == [name |-> "Anything", category |-> "Other", patterns |-> <<PatDigitsOrNothing>>]

\* The catalogs of the DatabaseSchemaScanner: with and without an element
\* Email Address, with an element name twice, and none.
ColumnCatalogs ==
  {DirOf(<<FileOf(<<SrcEmailOpenRates, SrcWorkEmail, SrcEmailAddress, SrcPhoneNumber, SrcSsn>>)>>),
   DirOf(<<FileOf(<<SrcEmailOpenRates, SrcWorkEmail>>), FileOf(<<SrcSsn>>)>>),
   DirOf(<<FileOf(<<SrcEmailAddress, SrcEmailAgain, SrcAnything>>)>>),
   DirMissing}

ColumnNames ==
  {<<>>,
   <<"e","m","a","i","l">>,
   <<"E","M","A","I","L">>,
   <<"u","s","e","r","_","e","m","a","i","l">>,
   <<"w","o","r","k","_","e","m","a","i","l">>,
   <<"e","m","a","i","l","_","o","p","e","n","_","r","a","t","e">>,
   <<"p","h","o","n","e">>,
   <<"m","o","b","i","l","e">>,
   <<"p","h","o","n","e","_","n","u","m","b","e","r">>,
   <<"s","s","n">>,
   <<"i","d">>,
   <<"e","m","a","i","l","_","a","d","d","r","e","s","s">>}

SampleValues ==
  {NoneValue, IntValue(12345), IntValue(7),
   StrValue(<<"a","@","b",".","c">>),
   StrValue(<<"s","s","n">>),
   StrValue(<<"s","s","n"," ","1","2","3","-","4","5">>),
   StrValue(<<"b","@","c",".","d"," ","s","s","n">>),
   StrValue(<<"s","a","f","e">>)}

ColData == <<"d","a","t","a">>

ColOther == <<"o","t","h","e","r">>

\* A row is the sequence of the items of its dict.
SampleRow(v, w) == <<<<ColData, v>>, <<ColOther, w>>>>

SecondRows ==
  {SampleRow(StrValue(<<"a","@","b",".","c">>), NoneValue),
   SampleRow(StrValue(<<"s","a","f","e">>), StrValue(<<"a","@","b",".","c">>)),
   SampleRow(StrValue(<<"b","@","c",".","d"," ","s","s","n">>), IntValue(7))}

\* What adapter.get_sample_data gives: no row, one row, two rows, or an
\* exception.
Samples ==
  {[raised |-> TRUE, rows |-> <<>>], [raised |-> FALSE, rows |-> <<>>]}
    \cup {[raised |-> FALSE, rows |-> <<SampleRow(v, w)>>] : v, w \in SampleValues}
    \cup {[raised |-> FALSE, rows |-> <<SampleRow(v, w), r>>] :
            v, w \in SampleValues, r \in SecondRows}

\* A DatabaseSchemaScanner on which no call is being made.
ColumnScanner(elements) == [called |-> FALSE, data_elements |-> elements]

\* A call made on the DatabaseSchemaScanner, and what it returned.
ColumnCall(scanner, op, arg, res) ==
  [called |-> TRUE, data_elements |-> scanner.data_elements, op |-> op, arg |-> arg,
   result |-> res]

\* DatabaseSchemaScanner(data_elements_dir)
InitDb ==
  \E dir \in ColumnCatalogs :
    /\ data_elements_dir = dir
    /\ data_elements = load_data_elements(<<>>, dir)
    /\ loads = 1
    /\ files_parsed = 0
    /\ pc = "idle"
    /\ root = NoPath
    /\ progress_callback = "none"
    /\ NothingScanned
    /\ extensions = None
    /\ reports_subdir = {}
    /\ filename = NotCalled
    /\ api = NotCalled
    /\ db = ColumnScanner(load_data_elements_for_columns(dir))
    /\ threads = <<>>

\* matches = scanner.scan_column_name(col_name)
ScanColumnName ==
  /\ ~db.called
  /\ \E column_name \in ColumnNames :
       db' = ColumnCall(db, "scan_column_name", column_name,
                        scan_column_name(db.data_elements, column_name))
  /\ UNCHANGED <<catalogVars, pc, textVars, walkVars, callVars, selectVars, reports_subdir,
                 filename, api, threads>>

\* content_findings = scanner.scan_table_content(adapter, "users")
ScanTableContent ==
  /\ ~db.called
  /\ \E sample \in Samples :
       db' = ColumnCall(db, "scan_table_content", sample,
                        scan_table_content(data_elements, "users", sample))
  /\ UNCHANGED <<catalogVars, pc, textVars, walkVars, callVars, selectVars, reports_subdir,
                 filename, api, threads>>

\* The caller is done with the result.
ReturnFromDb ==
  /\ db.called
  /\ db' = ColumnScanner(db.data_elements)
  /\ UNCHANGED <<catalogVars, pc, textVars, walkVars, callVars, selectVars, reports_subdir,
                 filename, api, threads>>

NextDb == ScanColumnName \/ ScanTableContent \/ ReturnFromDb

SpecDb == InitDb /\ [][NextDb]_vars

(***************************************************************************)
(* truscanner.api.scan: the programmatic scan of a local path.             *)
(***************************************************************************)
PERSONAL_CATEGORIES ==
  {<<"P","e","r","s","o","n","a","l"," ","I","d","e","n","t","i","f","i","a","b","l","e"," ","I","n","f","o","r","m","a","t","i","o","n">>,
   <<"P","I","I">>,
   <<"C","o","n","t","a","c","t"," ","I","n","f","o","r","m","a","t","i","o","n">>,
   <<"G","o","v","e","r","n","m","e","n","t","-","I","s","s","u","e","d"," ","I","d","e","n","t","i","f","i","e","r","s">>,
   <<"A","u","t","h","e","n","t","i","c","a","t","i","o","n"," ","&"," ","C","r","e","d","e","n","t","i","a","l","s">>,
   <<"H","e","a","l","t","h"," ","&"," ","B","i","o","m","e","t","r","i","c"," ","D","a","t","a">>,
   <<"S","e","n","s","i","t","i","v","e"," ","P","e","r","s","o","n","a","l"," ","D","a","t","a">>}

\* The characters of the category names of the catalog that api.scan loads.
CategoryText(category) ==
  CASE category = "Contact Information" -> <<"C","o","n","t","a","c","t"," ","I","n","f","o","r","m","a","t","i","o","n">>
    [] category = "Non-PII Data" -> <<"N","o","n","-","P","I","I"," ","D","a","t","a">>
    [] category = "Government ID" -> <<"G","o","v","e","r","n","m","e","n","t"," ","I","D">>
    [] OTHER -> <<>>

\* any(cat in finding.get("element_category", "") for cat in PERSONAL_CATEGORIES)
IsPersonal(f) ==
  \E cat \in PERSONAL_CATEGORIES : Contains(CategoryText(f.element_category), cat)

\* findings = [finding for finding in findings if any(...)]
PersonalOnly(fs) == SelectSeq(fs, IsPersonal)

\* The findings after the personal_only filter, if asked for.
FilterPersonal(personal_only, fs) == IF personal_only THEN PersonalOnly(fs) ELSE fs

\* RegexScanner().scan_directory(target_str, extensions=extensions)
RegexFindings(elements, r, exts) ==
  IF r.kind = "file" THEN scan_file(elements, r.name, r)
  ELSE DirectoryFindings(elements, r, RegexSelected(r, exts))

\* bool(x) of an optional string: None and "" are false.
Truthy(s) == s.given /\ s.value # ""

\* A variant of UseOpenAI that takes OpenAI whenever the caller did not say.
UseOpenAIUnlessRefused(use_openai, key) ==
  IF use_openai.given THEN use_openai.value ELSE TRUE

\* if use_openai is None: use_openai = bool(os.environ.get("OPENAI_API_KEY"))
UseOpenAI(use_openai, key) ==
  IF use_openai.given THEN use_openai.value ELSE Truthy(key)

\* available_models = ai_scanner.get_available_ollama_models(): every
\* exception of ollama.list() is caught and gives [].
get_available_ollama_models(ollama) == IF ollama.raised THEN <<>> ELSE ollama.models

\* if available_models: selected_model = available_models[0]
FirstAvailable(available_models) ==
  IF available_models # <<>> THEN Some(available_models[1]) ELSE None

\* selected_model, for a scan that does not use OpenAI.
SelectedModel(use_open_ai, model, ollama) ==
  IF use_open_ai THEN None
  ELSE IF Truthy(model) THEN model
  ELSE FirstAvailable(get_available_ollama_models(ollama))

\* if use_openai or selected_model
RunsAIScan(use_open_ai, selected_model) == use_open_ai \/ Truthy(selected_model)

\* One finding of the AI scanner for a file: what the model answers is not
\* the program's to decide.
AIFinding(filepath) ==
  [filename |-> filepath, element_name |-> "Email Address", source |-> "LLM"]

\* AIScanner.scan_directory: scan_file for each selected file, the findings
\* of all of them in order.
AIFindings(files, answers) ==
  ConcatAll([k \in 1..Len(files) |-> IF answers THEN <<AIFinding(files[k])>> ELSE <<>>])

\* The call of ai_scanner.scan_directory that api.scan makes, if it makes one.
AICalls(r, use_open_ai, selected_model, exts) ==
  IF RunsAIScan(use_open_ai, selected_model)
  THEN <<[directory |-> r.name, use_openai |-> use_open_ai, model |-> selected_model,
          extensions |-> exts]>>
  ELSE <<>>

\* "ai_model": "gpt-4o" if use_openai else selected_model
AIModel(use_open_ai, selected_model) ==
  IF use_open_ai THEN Some("gpt-4o") ELSE selected_model

\* The dictionary that scan returns.
ScanResult(r, elements, fs, with_ai, ai_model, ai_findings) ==
  [directory_scanned |-> r.name,
   configured_data_elements |-> Len(elements),
   total_findings |-> Len(fs),
   findings |-> fs,
   ai_enabled |-> with_ai,
   ai_model |-> ai_model,
   ai_total_findings |-> Len(ai_findings),
   ai_findings |-> ai_findings]

\* The part of scan under `if with_ai:` and the return.
ScanWithAI(r, elements, fs, exts, use_open_ai, selected_model, answers) ==
  [raised |-> "none",
   ai_calls |-> AICalls(r, use_open_ai, selected_model, exts),
   result |-> ScanResult(r, elements, fs, TRUE, AIModel(use_open_ai, selected_model),
                         IF RunsAIScan(use_open_ai, selected_model)
                         THEN AIFindings(AISelected(r, exts), answers) ELSE <<>>)]

\* scan without the AI scanner.
ScanWithoutAI(r, elements, fs, use_openai) ==
  [raised |-> "none",
   ai_calls |-> <<>>,
   result |-> ScanResult(r, elements, fs, FALSE,
                         IF use_openai.given /\ use_openai.value THEN Some("gpt-4o") ELSE None,
                         <<>>)]

\* _resolve_local_path raises FileNotFoundError for a path that does not
\* exist, before any scanner is made.
PathNotFoundError == [raised |-> "FileNotFoundError", ai_calls |-> <<>>]

\* scan(path_or_url, with_ai=, personal_only=, use_openai=, model=, extensions=)
scan(r, elements, with_ai, personal_only, use_openai, model, exts, key, ollama, answers) ==
  IF r.kind = "missing" THEN PathNotFoundError
  ELSE IF with_ai
  THEN ScanWithAI(r, elements, FilterPersonal(personal_only, RegexFindings(elements, r, exts)),
                  exts, UseOpenAI(use_openai, key),
                  SelectedModel(UseOpenAI(use_openai, key), model, ollama), answers)
  ELSE ScanWithoutAI(r, elements, FilterPersonal(personal_only, RegexFindings(elements, r, exts)),
                     use_openai)

\* The catalog that RegexScanner() loads for api.scan.
SrcContactEmail ==
  [name |-> "Email Address", category |-> "Contact Information",
   patterns |-> <<PatAddress, PatEmailWord>>]

SrcNonPersonal ==
  [name |-> "Telemetry", category |-> "Non-PII Data", patterns |-> <<PatEmailWord>>]

ApiCatalog == DirOf(<<FileOf(<<SrcContactEmail, SrcSsn, SrcNonPersonal>>)>>)

\* The arguments and the environment of the calls.
OptionalBools == {None, Some(TRUE), Some(FALSE)}

ModelArgs == {None, Some(""), Some("mistral")}

ApiKeys == {None, Some(""), Some("sk-test")}

ApiExtensionArgs == {None, Some(<<<<"p","y">>>>)}

\* What ollama.list() does: it raises (no server), or lists the models.
OllamaStates ==
  {[raised |-> TRUE, models |-> <<>>],
   [raised |-> FALSE, models |-> <<>>],
   [raised |-> FALSE, models |-> <<"llama3", "mistral">>],
   [raised |-> FALSE, models |-> <<"", "llama3">>]}

\* A call of scan with its arguments and environment, and its outcome.
ApiCall(r, with_ai, personal_only, use_openai, model, exts, key, ollama, outcome) ==
  [called |-> TRUE, path |-> r, with_ai |-> with_ai, personal_only |-> personal_only,
   use_openai |-> use_openai, model |-> model, extensions |-> exts,
   OPENAI_API_KEY |-> key, ollama |-> ollama, outcome |-> outcome]

\* The packaged catalog is on disk; nothing has been called.
InitApi ==
  /\ data_elements_dir = ApiCatalog
  /\ data_elements = <<>>
  /\ loads = 0
  /\ files_parsed = 0
  /\ pc = "idle"
  /\ root = NoPath
  /\ progress_callback = "none"
  /\ NothingScanned
  /\ extensions = None
  /\ NoOtherCall

\* result = truscanner.scan(path) without the AI scanner
ApiScan ==
  /\ ~api.called
  /\ \E r \in CallRoots, personal_only \in BOOLEAN, exts \in ApiExtensionArgs,
        use_openai \in OptionalBools :
       api' = ApiCall(r, FALSE, personal_only, use_openai, None, exts, None,
                      [raised |-> TRUE, models |-> <<>>],
                      scan(r, load_data_elements(<<>>, data_elements_dir), FALSE,
                           personal_only, use_openai, None, exts, None,
                           [raised |-> TRUE, models |-> <<>>], FALSE))
  /\ UNCHANGED <<catalogVars, pc, textVars, walkVars, callVars, selectVars, reports_subdir,
                 filename, db, threads>>

\* result = truscanner.scan(path, with_ai=True, ...)
ApiScanWithAI ==
  /\ ~api.called
  /\ \E r \in CallRoots, personal_only \in BOOLEAN, exts \in ApiExtensionArgs,
        use_openai \in OptionalBools, model \in ModelArgs, key \in ApiKeys,
        ollama \in OllamaStates, answers \in BOOLEAN :
       api' = ApiCall(r, TRUE, personal_only, use_openai, model, exts, key, ollama,
                      scan(r, load_data_elements(<<>>, data_elements_dir), TRUE,
                           personal_only, use_openai, model, exts, key, ollama, answers))
  /\ UNCHANGED <<catalogVars, pc, textVars, walkVars, callVars, selectVars, reports_subdir,
                 filename, db, threads>>

\* The caller is done with the result, or has handled the exception.
ApiReturn ==
  /\ api.called
  /\ api' = NotCalled
  /\ UNCHANGED <<catalogVars, pc, textVars, walkVars, callVars, selectVars, reports_subdir,
                 filename, db, threads>>

NextApi == ApiScan \/ ApiScanWithAI \/ ApiReturn

SpecApi == InitApi /\ [][NextApi]_vars

(***************************************************************************)
(* Two threads that call scan_directory on one lazily constructed scanner. *)
(* The scanner holds no lock.  A thread switch can come between any two    *)
(* operations on the shared element list: the test `not                    *)
(* self.data_elements`, each append of _parse_json_file, and each step of  *)
(* the iteration of scan_text over the list, which visits the elements     *)
(* appended while it runs.                                                 *)
(***************************************************************************)
ThreadIds == {1, 2}

ThreadTree ==
  [kind |-> "dir", name |-> RootName, files |-> <<FileApp, FileLocked>>, dirs |-> <<>>]

ThreadCatalogs ==
  {DirOf(<<FileOf(<<SrcEmailAddress, SrcSsn>>)>>),
   DirOf(<<FileOf(<<SrcEmailAddress>>), FileInvalidJson, FileOf(<<SrcNoName, SrcSsn>>)>>),
   DirMissing}

\* A thread that has called scan_directory(directory) and done nothing yet.
ThreadCalled ==
  [pc |-> "called", files_to_scan |-> <<>>, json_file |-> 0, source |-> 0, index |-> 0,
   element |-> 0, file_findings |-> <<>>, all_findings |-> <<>>, result |-> <<>>]

\* for json_file in self.data_elements_dir.rglob("*.json"): the thread goes
\* on to file k of the catalog, or to the scan when there is none.
AtJsonFile(thread, dir, k) ==
  IF dir.exists /\ k <= Len(dir.files)
  THEN [thread EXCEPT !.pc = "loading", !.json_file = k, !.source = 1]
  ELSE [thread EXCEPT !.pc = "scanning", !.json_file = 0, !.source = 0]

\* The file that the thread is scanning.
ThreadFilePath(thread) == thread.files_to_scan[thread.index + 1]

ThreadFile(thread) == OpenFile(ThreadTree, ThreadFilePath(thread))

\* scan_text returns at once for an empty text, and scan_file returns []
\* for a file that cannot be read.
NothingToIterate(file) == ~file.readable \/ file.content = <<>>

\* The body of the loop of scan_text for one element.
ElementStep(element, file_text, context) ==
  IF KeywordSkip(element, file_text) THEN <<>> ELSE ElementFindings(element, file_text, context)

\* _parse_json_file leaves the file at source k: json.load raised, the
\* sources are exhausted, or the body of the loop raises for the source.
LeavesJsonFile(json_file, k) ==
  IF ~json_file.valid THEN TRUE
  ELSE IF k > Len(json_file.sources) THEN TRUE
  ELSE ParseSource(json_file.sources[k]).raised

\* A lazily constructed scanner shared by two threads, each about to scan
\* the directory.
InitThreads ==
  \E dir \in ThreadCatalogs :
    /\ data_elements_dir = dir
    /\ data_elements = <<>>
    /\ loads = 0
    /\ files_parsed = 0
    /\ pc = "idle"
    /\ root = NoPath
    /\ progress_callback = "none"
    /\ NothingScanned
    /\ extensions = None
    /\ reports_subdir = {}
    /\ filename = NotCalled
    /\ api = NotCalled
    /\ db = NotCalled
    /\ threads = [t \in ThreadIds |-> ThreadCalled]

\* The walk that fills files_to_scan.
ThreadWalk ==
  \E t \in ThreadIds :
    /\ threads[t].pc = "called"
    /\ threads' = [threads EXCEPT ![t].pc = "walked",
                                  ![t].files_to_scan =
                                     Walk(ThreadTree.name, ThreadTree, DEFAULT_EXCLUDE_DIRS,
                                          DEFAULT_CODE_EXTENSIONS)]
    /\ UNCHANGED <<catalogVars, pc, textVars, walkVars, callVars, selectVars, reports_subdir,
                   filename, api, db>>

\* if not self.data_elements: self._load_data_elements()
ThreadCheckLoaded ==
  \E t \in ThreadIds :
    /\ threads[t].pc = "walked"
    /\ threads' = [threads EXCEPT ![t] =
                     IF data_elements = <<>> THEN AtJsonFile(threads[t], data_elements_dir, 1)
                     ELSE [threads[t] EXCEPT !.pc = "scanning"]]
    /\ loads' = IF data_elements = <<>> THEN loads + 1 ELSE loads
    /\ UNCHANGED <<catalogVars, pc, textVars, walkVars, calls, held, selectVars,
                   reports_subdir, filename, api, db>>

\* _parse_json_file leaves the file: json.load raised, the body of the loop
\* raised for the source, or the sources are exhausted.
ThreadLeaveJsonFile ==
  \E t \in ThreadIds :
    /\ threads[t].pc = "loading"
    /\ LeavesJsonFile(data_elements_dir.files[threads[t].json_file], threads[t].source)
    /\ threads' = [threads EXCEPT ![t] =
                     AtJsonFile(threads[t], data_elements_dir, threads[t].json_file + 1)]
    /\ UNCHANGED <<catalogVars, pc, textVars, walkVars, callVars, selectVars, reports_subdir,
                   filename, api, db>>

\* The body of the loop of _parse_json_file for one source:
\* self.data_elements.append(element_info) if it has compiled patterns.
ThreadParseSource ==
  \E t \in ThreadIds :
    /\ threads[t].pc = "loading"
    /\ ~LeavesJsonFile(data_elements_dir.files[threads[t].json_file], threads[t].source)
    /\ data_elements' =
         data_elements \o
           ParseSource(data_elements_dir.files[threads[t].json_file].sources[threads[t].source]).elements
    /\ threads' = [threads EXCEPT ![t].source = @ + 1]
    /\ UNCHANGED <<data_elements_dir, files_parsed, pc, textVars, walkVars, callVars,
                   selectVars, reports_subdir, filename, api, db>>

\* One step of `for element in self.data_elements` in scan_text: the next
\* element of the list as it is now.
ThreadScanElement ==
  \E t \in ThreadIds :
    /\ threads[t].pc = "scanning"
    /\ threads[t].index < Len(threads[t].files_to_scan)
    /\ ~NothingToIterate(ThreadFile(threads[t]))
    /\ threads[t].element < Len(data_elements)
    /\ threads' = [threads EXCEPT
                     ![t].element = @ + 1,
                     ![t].file_findings =
                        @ \o ElementStep(data_elements[threads[t].element + 1],
                                         ThreadFile(threads[t]).content,
                                         ThreadFilePath(threads[t]))]
    /\ UNCHANGED <<catalogVars, pc, textVars, walkVars, callVars, selectVars, reports_subdir,
                   filename, api, db>>

\* The iteration ends at the end of the list as it is now; scan_file sets
\* the filename of the findings and scan_directory extends all_findings.
ThreadFinishFile ==
  \E t \in ThreadIds :
    /\ threads[t].pc = "scanning"
    /\ threads[t].index < Len(threads[t].files_to_scan)
    /\ (NothingToIterate(ThreadFile(threads[t])) \/ threads[t].element >= Len(data_elements))
    /\ threads' = [threads EXCEPT
                     ![t].index = @ + 1,
                     ![t].element = 0,
                     ![t].file_findings = <<>>,
                     ![t].all_findings =
                        @ \o WithFilename(threads[t].file_findings, ThreadFilePath(threads[t]))]
    /\ UNCHANGED <<catalogVars, pc, textVars, walkVars, callVars, selectVars, reports_subdir,
                   filename, api, db>>

\* return all_findings
ThreadReturn ==
  \E t \in ThreadIds :
    /\ threads[t].pc = "scanning"
    /\ threads[t].index = Len(threads[t].files_to_scan)
    /\ threads' = [threads EXCEPT ![t].pc = "returned", ![t].result = threads[t].all_findings]
    /\ UNCHANGED <<catalogVars, pc, textVars, walkVars, callVars, selectVars, reports_subdir,
                   filename, api, db>>

NextThreads ==
  \/ ThreadWalk
  \/ ThreadCheckLoaded
  \/ ThreadLeaveJsonFile
  \/ ThreadParseSource
  \/ ThreadScanElement
  \/ ThreadFinishFile
  \/ ThreadReturn

SpecThreads == InitThreads /\ [][NextThreads]_vars

(***************************************************************************)
(* Properties of scan_text.  Lines are numbered here by counting the \n    *)
(* characters before an offset, independently of LineStarts/BisectRight.   *)
(***************************************************************************)
NewlinesBefore(t, offset) == Cardinality({k \in 1..offset : t[k] = "\n"})

LineOfOffset(t, offset) == 1 + NewlinesBefore(t, offset)

\* The n-th line of t when only \n ends a line.
NewlineLine(t, n) ==
  LET at == Ascending({k \in 1..Len(t) : t[k] # "\n" /\ LineOfOffset(t, k - 1) = n})
  IN  [j \in 1..Len(at) |-> t[at[j]]]

\* t is the one line among blank lines.
IsLineAmongBlanks(t, line) ==
  \E i \in 0..(Len(t) - Len(line)) :
    t = BlankLines(i) \o line \o BlankLines(Len(t) - Len(line) - i)

\* The findings of the element of that name on that line.
FindingsFor(name, line) ==
  {k \in DOMAIN findings :
     findings[k].element_name = name /\ findings[k].line_number = line}

\* The matches of the element (of one of its patterns) that start on the line.
MatchesOnLine(matches, line) ==
  {k \in DOMAIN matches : LineOfOffset(text, matches[k].start) = line}

LineNumbers == 1..(NewlinesBefore(text, Len(text)) + 1)

\* Some keyword of the element occurs in the text, or it has no keyword.
PassesPrefilter(element) ==
  \/ element.keywords = {}
  \/ \E kw \in element.keywords : Contains(Lower(text), kw)

\* The match is one the loop body drops: its line, as splitlines gives it,
\* is a comment or the false-positive filter rejects the match.
Suppressed(m) ==
  LET line == LineOfOffset(text, m.start)
      lines == SplitLines(text)
      line_content == IF line <= Len(lines) THEN lines[line] ELSE <<>>
      breaks == {k \in 1..m.start : text[k] = "\n"}
      line_start == IF breaks = {} THEN 0 ELSE CHOOSE k \in breaks : \A j \in breaks : j <= k
  IN  is_false_positive(line_content, m.matched_text, m.start, line_start)

\* The first match of the element on the line, in the order of the loops.
FirstMatchOnLine(element, line) ==
  LET matches == ElementMatches(element.patterns, text)
      on == MatchesOnLine(matches, line)
  IN  matches[CHOOSE k \in on : \A j \in on : k <= j]

\* The (element, pattern, line) triples with three matches of the pattern
\* on the line.
ThreeOccurrences ==
  UNION {LET matches == PatternMatches(data_elements[ep[1]].patterns[ep[2]].prog, text)
         IN  {<<ep[1], ep[2], line>> :
                line \in {n \in LineNumbers : Cardinality(MatchesOnLine(matches, n)) = 3}} :
           ep \in {x \in (DOMAIN data_elements) \X (1..4) :
                     x[2] <= Len(data_elements[x[1]].patterns)}}

\* C1: in the result of one scan_text call there is, for every element and
\* every line number, at most one finding of that element on that line.
C1_AtMostOneFindingPerLine ==
  pc = "scanned" =>
    \A i, j \in DOMAIN findings :
      (/\ findings[i].element_name = findings[j].element_name
       /\ findings[i].line_number = findings[j].line_number) => i = j

\* An element with several patterns has three or more matches on a line and
\* a finding on that line.
C1_Witness ==
  /\ pc = "scanned"
  /\ \E e \in DOMAIN data_elements, f \in DOMAIN findings :
       /\ Len(data_elements[e].patterns) >= 2
       /\ findings[f].element_name = data_elements[e].name
       /\ Cardinality(MatchesOnLine(ElementMatches(data_elements[e].patterns, text),
                                    findings[f].line_number)) >= 3

C3_PrefilterConservative ==
  pc = "scanned" =>
    /\ \A e \in DOMAIN data_elements :
         ElementMatches(data_elements[e].patterns, text) # <<>>
           => ~KeywordSkip(data_elements[e], text)
    /\ findings = ConcatAll([e \in DOMAIN data_elements |->
                               ElementFindings(data_elements[e], text, "")])

\* C4: every finding's line_number is the number of line starts (0 and the
\* offset after each \n) up to the start of a match of its element with its
\* matched text, and lies between 1 and the number of \n in the text plus 1.
C4_LineNumberCountsLineStarts ==
  pc = "scanned" =>
    \A f \in DOMAIN findings :
      /\ findings[f].line_number \in LineNumbers
      /\ \E e \in DOMAIN data_elements :
           /\ data_elements[e].name = findings[f].element_name
           /\ LET matches == ElementMatches(data_elements[e].patterns, text)
              IN  \E k \in DOMAIN matches :
                    /\ matches[k].matched_text = findings[f].matched_text
                    /\ findings[f].line_number =
                         Cardinality({0} \cup {o \in 1..matches[k].start : text[o] = "\n"})

\* A match on line 3 of a 5-line text, after a line that holds a \r, is
\* reported with line_number 3.
C4_Witness ==
  /\ pc = "scanned"
  /\ NewlinesBefore(text, Len(text)) = 4
  /\ \E k \in DOMAIN text : text[k] = "\r"
  /\ \E f \in DOMAIN findings : findings[f].line_number = 3

\* C7 as stated: no finding is on a line whose trimmed text begins with a
\* comment marker; `// email: alice@example.com` yields no finding and
\* `email: alice@example.com` exactly one for each element that matches it.
C7_CommentLinesNotReported ==
  pc = "scanned" =>
    /\ \A f \in DOMAIN findings :
         ~IsCommentLine(Strip(NewlineLine(text, findings[f].line_number)))
    /\ IsLineAmongBlanks(text, LineCommentedEmail) => findings = <<>>
    /\ IsLineAmongBlanks(text, LineEmail) =>
         \A e \in DOMAIN data_elements :
           ElementMatches(data_elements[e].patterns, text) # <<>>
             => Cardinality(FindingsFor(data_elements[e].name,
                                        LineOfOffset(text, Find(text, LineEmail)))) = 1

\* C8 as stated: `const email;` yields no finding, and
\* `const email = "alice@example.com";` yields exactly one finding for each
\* element that matches it, whose matched_text contains the address.
C8_DeclarationFindingHoldsAddress ==
  pc = "scanned" =>
    /\ IsLineAmongBlanks(text, LineBareDeclaration) => findings = <<>>
    /\ IsLineAmongBlanks(text, LineDeclaration) =>
         \A e \in DOMAIN data_elements :
           ElementMatches(data_elements[e].patterns, text) # <<>> =>
             \E f \in DOMAIN findings :
               /\ FindingsFor(data_elements[e].name, findings[f].line_number) = {f}
               /\ Contains(findings[f].matched_text, TextAddress)

\* C8 amended: a text that is the one line `const email;` or `const ssn;`
\* among blank lines yields no finding; the one line
\* `const email = "alice@example.com";` yields, for each element with a
\* pattern that matches it, exactly one finding, whose matched_text is the
\* first match of the first of the element's patterns that matches: the
\* address only if no pattern for the identifier comes before.
C8_DeclarationFindingHoldsFirstMatch ==
  pc = "scanned" =>
    /\ (\E line \in {LineBareDeclaration, LineBareSsn} : IsLineAmongBlanks(text, line))
         => findings = <<>>
    /\ IsLineAmongBlanks(text, LineDeclaration) =>
         \A e \in DOMAIN data_elements :
           LET matches == ElementMatches(data_elements[e].patterns, text)
               mine == {f \in DOMAIN findings :
                          findings[f].element_name = data_elements[e].name}
           IN  IF matches = <<>> THEN mine = {}
               ELSE /\ Cardinality(mine) = 1
                    /\ \A f \in mine : findings[f].matched_text = matches[1].matched_text

\* The declaration with a value, scanned with a catalog whose identifier
\* pattern comes first: the one finding's matched_text is the identifier.
C8_Witness ==
  /\ pc = "scanned"
  /\ IsLineAmongBlanks(text, LineDeclaration)
  /\ Len(findings) = 1
  /\ findings[1].matched_text = PatEmailWord

\* C18 as stated: every finding's line_content is the trimmed text of line
\* line_number of the text, the lines being those that \n alone divides.
C18_LineContentIsTheNumberedLine ==
  pc = "scanned" =>
    \A f \in DOMAIN findings :
      findings[f].line_content = Strip(NewlineLine(text, findings[f].line_number))

(***************************************************************************)
(* Properties of the catalog loader.  Which pattern strings compile, and   *)
(* the keywords each gives, are stated here apart from re_compile and      *)
(* PatternKeywords.                                                        *)
(***************************************************************************)
Compiles(pattern) == pattern \notin InvalidPatterns

ValidPatterns(patterns) == SelectSeq(patterns, Compiles)

KeywordsOf(pattern) ==
  CASE pattern = PatAddress -> {<<"@">>}
    [] pattern = PatEmailWord -> {PatEmailWord}
    [] pattern = PatSsnWord -> {PatSsnWord}
    [] pattern = PatPhoneWord -> {PatPhoneWord}
    [] OTHER -> {}

\* The sources of the catalog as <<file, position in the file>>.
CatalogSources ==
  {fs \in (DOMAIN data_elements_dir.files) \X (1..(MaxSources + 1)) :
     /\ data_elements_dir.exists
     /\ data_elements_dir.files[fs[1]].valid
     /\ fs[2] <= Len(data_elements_dir.files[fs[1]].sources)}

SourceAt(fs) == data_elements_dir.files[fs[1]].sources[fs[2]]

HasPatterns(source) == ValidPatterns(source.patterns) # <<>>

\* A source with its name, its category and a pattern that compiles.
WellFormed(source) ==
  /\ "name" \in DOMAIN source
  /\ "category" \in DOMAIN source
  /\ HasPatterns(source)

PatternStrings(element) == [k \in DOMAIN element.patterns |-> element.patterns[k].pattern]

\* The element is what the source gives: its name and category, the
\* patterns of the source that compile, in order, and their keywords.
ElementOf(element, source) ==
  /\ WellFormed(source)
  /\ element.name = source.name
  /\ element.category = source.category
  /\ PatternStrings(element) = ValidPatterns(source.patterns)
  /\ element.keywords =
       UNION {KeywordsOf(source.patterns[k]) :
                k \in {j \in DOMAIN source.patterns : Compiles(source.patterns[j])}}

\* C5 as stated: when loading is over, every well-formed source of every
\* catalog file has produced its element, whatever else the catalog holds.
C5_EveryWellFormedSourceLoaded ==
  pc = "loaded" =>
    \A fs \in CatalogSources :
      WellFormed(SourceAt(fs)) =>
        \E e \in DOMAIN data_elements : ElementOf(data_elements[e], SourceAt(fs))

\* C6: every loaded element holds exactly the patterns of its source that
\* compile, in catalog order, and the keywords of those patterns only; no
\* element comes from a source none of whose patterns compiles; and a source
\* with a name, a category and a pattern that compiles is loaded with the
\* patterns that do, unless a source before it in its file raised.
C6_ExactlyTheValidPatterns ==
  /\ \A e \in DOMAIN data_elements :
       /\ data_elements[e].patterns # <<>>
       /\ \E fs \in CatalogSources : ElementOf(data_elements[e], SourceAt(fs))
  /\ pc = "loaded" =>
       \A fs \in CatalogSources :
         (/\ WellFormed(SourceAt(fs))
          /\ \A k \in 1..(fs[2] - 1) :
               LET before == data_elements_dir.files[fs[1]].sources[k]
               IN  HasPatterns(before) => WellFormed(before))
           => \E e \in DOMAIN data_elements : ElementOf(data_elements[e], SourceAt(fs))

\* A source that mixes patterns that compile with patterns that do not has
\* been loaded, after a source none of whose patterns compiles.
C6_Witness ==
  /\ pc = "loaded"
  /\ data_elements_dir.exists
  /\ data_elements_dir.files = <<FileOf(<<SrcAllInvalid, SrcSsn>>)>>
  /\ Len(data_elements) = 1
  /\ PatternStrings(data_elements[1]) = <<PatSsnWord, PatSsnDigits>>
(***************************************************************************)
(* Properties of scan_directory.  Which files are to be scanned is stated  *)
(* here on the names themselves, apart from Walk, KeepFile and Suffix.     *)
(***************************************************************************)
\* The lower-cased suffix of a file name: from its last dot on, if that dot
\* is neither the first nor the last character.
LowerSuffix(name) ==
  LET dots == {k \in 1..Len(name) : name[k] = "."}
      last == CHOOSE k \in dots : \A j \in dots : j <= k
  IN  IF dots # {} /\ 1 < last /\ last < Len(name)
      THEN [j \in 1..(Len(name) - last + 1) |-> LowerChar(name[last + j - 1])]
      ELSE <<>>

\* The file of the entry is one the default settings have scanned.
ShouldScan(e) ==
  /\ \A k \in DOMAIN e.dirs :
       e.dirs[k] \notin DEFAULT_EXCLUDE_DIRS /\ e.dirs[k][1] # "."
  /\ e.file.name[1] # "."
  /\ e.file.name \notin DEFAULT_EXCLUDE_FILES
  /\ LowerSuffix(e.file.name) \in DEFAULT_CODE_EXTENSIONS
  /\ LowerSuffix(e.file.name) \notin DEFAULT_EXCLUDE_EXTENSIONS

RootEntries == FileEntries(root.name, <<>>, root)

WasScanned(path) == \E k \in DOMAIN scanned : scanned[k] = path

CodeFileNames == {<<"a","p","p",".","p","y">>, <<"s","c","r","i","p","t",".","J","S">>, <<"n","a","t","i","v","e",".","c">>}

OtherFileNames == {<<"R","E","A","D","M","E",".","m","d">>, <<"d","a","t","a",".","j","s","o","n">>, <<"l","o","g","o",".","p","n","g">>}

\* C9: scan_directory on a directory, with the default settings, passes to
\* scan_file exactly the files below it that have no excluded or dotted
\* directory on their path, whose name is neither dotted nor an excluded
\* file name, and whose lower-cased suffix is a code extension and not an
\* excluded one; app.py, script.JS and native.c in the directory are
\* scanned, README.md, data.json and logo.png are never opened.
C9_DefaultFiltering ==
  root.kind = "dir" =>
    /\ \A k \in DOMAIN scanned :
         \E e \in RootEntries : e.path = scanned[k] /\ ShouldScan(e)
    /\ \A e \in RootEntries : e.file.name \in OtherFileNames => ~WasScanned(e.path)
    /\ pc = "returned" =>
         \A e \in RootEntries :
           /\ ShouldScan(e) => WasScanned(e.path)
           /\ (e.dirs = <<>> /\ e.file.name \in CodeFileNames) => WasScanned(e.path)

\* The call has returned for a directory that holds the six files of the
\* example and a file two directories down.
C9_Witness ==
  /\ pc = "returned"
  /\ root.kind = "dir"
  /\ {f.name : f \in {root.files[k] : k \in DOMAIN root.files}}
       = CodeFileNames \cup OtherFileNames
  /\ \A n \in CodeFileNames : WasScanned(JoinPath(root.name, n))
  /\ \E e \in RootEntries : Len(e.dirs) = 2 /\ WasScanned(e.path)

\* C10: no exception leaves scan_directory; when it returns for a
\* directory, every enumerated file has been passed to scan_file, the
\* result is the findings of each enumerated file on its own, in the order
\* of enumeration, and no finding is of a file that cannot be read.
C10_FileFailureDoesNotAbort ==
  /\ pc # "raised"
  /\ (pc = "returned" /\ root.kind = "dir") =>
       /\ scanned = files_to_scan
       /\ result = ConcatAll([k \in DOMAIN files_to_scan |->
                    scan_file(data_elements, files_to_scan[k],
                              OpenFile(root, files_to_scan[k]))])
       /\ \A f \in DOMAIN result : OpenFile(root, result[f].filename).readable

\* The call has returned findings of a file enumerated before, and of a
\* file enumerated after, a file that cannot be read.
C10_Witness ==
  /\ pc = "returned"
  /\ root.kind = "dir"
  /\ \E i, j, k \in DOMAIN files_to_scan :
       /\ i < j /\ j < k
       /\ ~OpenFile(root, files_to_scan[j]).readable
       /\ \E f, g \in DOMAIN result :
            result[f].filename = files_to_scan[i] /\ result[g].filename = files_to_scan[k]

\* C11 as stated: scan_directory on a path that does not exist returns a
\* failure result, one that is not the empty list a scan that found nothing
\* returns.
C11_MissingRootIsExplicitFailure ==
  (pc = "returned" /\ root.kind = "missing") => result # <<>>

\* C12 as stated: whenever the progress callback is called with (index,
\* total, path), the file at path and every file before it in enumeration
\* order have already been passed to scan_file and scanned.
C12_ProgressAfterScan ==
  \A c \in DOMAIN progress_calls :
    \A k \in 1..progress_calls[c].index :
      \E j \in DOMAIN progress_calls[c].scanned :
        progress_calls[c].scanned[j] = files_to_scan[k]

\* What scan_directory returns for the directory when no callback is given:
\* the findings of each file of the walk, in the order of the walk.
FindingsWithoutCallback ==
  ConcatAll([k \in DOMAIN files_to_scan |->
               scan_file(data_elements, files_to_scan[k], OpenFile(root, files_to_scan[k]))])

\* C13: with a progress callback that raises, no exception leaves
\* scan_directory, the callback is still called for every enumerated file,
\* every enumerated file is scanned, the file of a failing call included,
\* and the findings returned are those returned without a callback.
C13_CallbackFailureDoesNotAbort ==
  progress_callback = "raises" =>
    /\ pc # "raised"
    /\ \A c \in DOMAIN progress_calls :
         pc = "returned" => WasScanned(progress_calls[c].file_path)
    /\ (pc = "returned" /\ root.kind = "dir") =>
         /\ Len(progress_calls) = Len(files_to_scan)
         /\ \A k \in DOMAIN files_to_scan : WasScanned(files_to_scan[k])
         /\ result = FindingsWithoutCallback

\* The call has returned findings for a directory of several files after
\* every call of the callback raised.
C13_Witness ==
  /\ pc = "returned"
  /\ root.kind = "dir"
  /\ Len(progress_calls) >= 3
  /\ \A c \in DOMAIN progress_calls : progress_calls[c].raised
  /\ result # <<>>

(***************************************************************************)
(* Properties of sequences of calls, stated on the log of the calls.       *)
(***************************************************************************)
\* C14 as stated: once the catalog has been loaded, no scan_text, scan_file
\* or scan_directory call changes the scanner's element list.
C14_ElementsNeverChangeAfterLoad ==
  \A c \in DOMAIN calls :
    (calls[c].op \in ScanOps /\ calls[c].loaded) => calls[c].after = calls[c].before

\* C15 as stated: when the caller modifies the tags of a finding it holds,
\* the catalog elements stay as they were, and so does what every other
\* finding reads, whether it was returned before or after.
C15_FindingsHoldCopies ==
  \A c \in DOMAIN calls :
    calls[c].op = "modify_tags" =>
      /\ calls[c].after = calls[c].before
      /\ \A k \in (DOMAIN held) \ {calls[c].arg} :
           Read(calls[c].after, held[k]) = Read(calls[c].before, held[k])

C17_MissingCatalogNoFindings ==
  ~data_elements_dir.exists =>
    /\ data_elements = <<>>
    /\ \A c \in DOMAIN calls :
         calls[c].op \in ScanOps => (calls[c].result = <<>> /\ ~calls[c].raised)

\* With the catalog directory missing, a directory whose files hold an
\* address has been scanned, and a text that holds one.
C17_Witness ==
  /\ ~data_elements_dir.exists
  /\ \E c, d \in DOMAIN calls :
       /\ calls[c].op = "scan_directory" /\ calls[c].arg = CallTree
       /\ calls[d].op = "scan_text" /\ calls[d].arg = LineEmail

(***************************************************************************)
(* Properties of the file selection of the three scan_directory functions. *)
(***************************************************************************)
PassedTo(sel, path) == \E k \in DOMAIN sel.files : sel.files[k] = path

\* C19 as stated: scan_directory of the module scanner.py, called on a
\* directory with or without use_ai=False, returns after passing to
\* scan_file only files whose lower-cased suffix is a default code
\* extension, and every file the default rules keep.
C19_LegacyScansOnlyCodeFiles ==
  (selection.legacy.called /\ root.kind = "dir") =>
    /\ ~selection.legacy.raised
    /\ \A k \in DOMAIN selection.legacy.files :
         \E e \in RootEntries :
           /\ e.path = selection.legacy.files[k]
           /\ LowerSuffix(e.file.name) \in DEFAULT_CODE_EXTENSIONS
    /\ \A e \in RootEntries : ShouldScan(e) => PassedTo(selection.legacy, e.path)

\* C20: for every root and every extensions argument, AIScanner's
\* scan_directory passes to scan_file the paths RegexScanner's passes, in
\* the same order, and neither raises; with no argument they are files of
\* the default code extensions only.
C20_AISelectsWhatRegexSelects ==
  (selection.regex.called /\ selection.ai.called) =>
    /\ selection.ai = selection.regex
    /\ ~selection.ai.raised
    /\ (root.kind = "dir" /\ ~extensions.given) =>
         \A e \in RootEntries :
           PassedTo(selection.ai, e.path) =>
             LowerSuffix(e.file.name) \in DEFAULT_CODE_EXTENSIONS

\* Both have scanned a directory with directories below it, with an
\* extensions argument that names md and PNG, and passed README.md on.
C20_Witness ==
  /\ selection.regex.called /\ selection.ai.called
  /\ root.kind = "dir"
  /\ root.dirs # <<>>
  /\ extensions = Some(<<<<".","m","d">>, <<"P","N","G">>>>)
  /\ \E e \in RootEntries : e.file.name = FileReadme.name /\ PassedTo(selection.ai, e.path)
  /\ Len(selection.ai.files) >= 2

(***************************************************************************)
(* Properties of the order of scan_text's findings and of two rules of     *)
(* the false-positive filter.                                              *)
(***************************************************************************)
\* The element of the catalog that a finding names (names are unique).
ElementIndex(f) == CHOOSE e \in DOMAIN data_elements : data_elements[e].name = f.element_name

\* The matches of the p-th pattern of the element that start on the line.
PatternMatchesOnLine(element, p, line) ==
  LET matches == PatternMatches(element.patterns[p].prog, text)
  IN  {matches[k] : k \in MatchesOnLine(matches, line)}

\* The first pattern of the element, in catalog order, with a match on the line.
FirstPatternOnLine(element, line) ==
  LET with == {p \in DOMAIN element.patterns : PatternMatchesOnLine(element, p, line) # {}}
  IN  CHOOSE p \in with : \A q \in with : p <= q

\* Where the scan meets the match that wins the line: the pattern's place in
\* the catalog and the least offset of its matches on the line.
ScanPlace(element, line) ==
  LET p == FirstPatternOnLine(element, line)
      on == PatternMatchesOnLine(element, p, line)
  IN  [pattern |-> p, match |-> CHOOSE m \in on : \A o \in on : m.start <= o.start]

PlaceBefore(a, b) ==
  \/ a.pattern < b.pattern
  \/ a.pattern = b.pattern /\ a.match.start < b.match.start

\* C24: the findings of scan_text are grouped by element in catalog order;
\* each finding reports, for its element and line, the match of the first
\* pattern (in catalog order) that matches on the line, at its least offset,
\* whatever later patterns match earlier on the line; and the findings of
\* one element follow the order in which the scan meets their matches.
C24_FindingsInScanOrder ==
  pc = "scanned" =>
    /\ \A i, j \in DOMAIN findings :
         i < j => ElementIndex(findings[i]) <= ElementIndex(findings[j])
    /\ \A f \in DOMAIN findings :
         LET element == data_elements[ElementIndex(findings[f])]
         IN  /\ \E p \in DOMAIN element.patterns :
                  PatternMatchesOnLine(element, p, findings[f].line_number) # {}
             /\ findings[f].matched_text =
                  ScanPlace(element, findings[f].line_number).match.matched_text
    /\ \A i, j \in DOMAIN findings :
         (i < j /\ ElementIndex(findings[i]) = ElementIndex(findings[j])) =>
           LET element == data_elements[ElementIndex(findings[i])]
           IN  PlaceBefore(ScanPlace(element, findings[i].line_number),
                           ScanPlace(element, findings[j].line_number))

\* A finding reports the match of an earlier pattern although a later
\* pattern of its element matches earlier on the same line, and findings of
\* two elements are returned.
C24_Witness ==
  /\ pc = "scanned"
  /\ \E i, j \in DOMAIN findings : ElementIndex(findings[i]) < ElementIndex(findings[j])
  /\ \E f \in DOMAIN findings :
       LET element == data_elements[ElementIndex(findings[f])]
           place == ScanPlace(element, findings[f].line_number)
       IN  \E q \in DOMAIN element.patterns :
             /\ q > place.pattern
             /\ \E m \in PatternMatchesOnLine(element, q, findings[f].line_number) :
                  m.start < place.match.start

\* The offset in the text at which the line of that number starts.
OffsetOfLine(line) ==
  IF line = 1 THEN 0
  ELSE CHOOSE k \in 1..Len(text) : text[k] = "\n" /\ NewlinesBefore(text, k) = line - 1

\* A // or a # occurs on the line of the match, before the match.
AfterCommentMarker(m) ==
  LET line == LineOfOffset(text, m.start)
      content == NewlineLine(text, line)
      match_pos == m.start - OffsetOfLine(line)
  IN  \E marker \in {<<"/","/">>, <<"#">>} :
        \E at \in 0..(match_pos - 1) : OccursAt(content, marker, at)

\* C25 as stated: a match that starts after a // or a # occurring earlier on
\* its line is discarded, so whenever the match that scan_text examines for
\* an element and a line comes after such a marker, no finding is returned
\* for that element and line.
C25_MatchAfterCommentMarkerDiscarded ==
  pc = "scanned" =>
    \A e \in DOMAIN data_elements, line \in LineNumbers :
      LET element == data_elements[e]
      IN  (/\ \E p \in DOMAIN element.patterns : PatternMatchesOnLine(element, p, line) # {}
           /\ AfterCommentMarker(ScanPlace(element, line).match))
            => FindingsFor(element.name, line) = {}

\* The position lies after an opening quote and before its closing quote.
InsideQuotes(content, pos) ==
  \E q \in {"\"", "'"} :
    /\ Cardinality({k \in 1..pos : content[k] = q}) % 2 = 1
    /\ \E k \in (pos + 1)..Len(content) : content[k] = q

\* C26 as stated: on a line holding SELECT, INSERT INTO or UPDATE ... SET the
\* SQL rule discards the match that scan_text examines only if the match
\* lies inside a quoted string; a match after a quoted string that is
\* already closed is not discarded by it.
C26_SqlRuleOnlyInsideQuotes ==
  pc = "scanned" =>
    \A e \in DOMAIN data_elements, line \in LineNumbers :
      LET element == data_elements[e]
          content == NewlineLine(text, line)
      IN  (\E p \in DOMAIN element.patterns : PatternMatchesOnLine(element, p, line) # {}) =>
            LET match_pos == ScanPlace(element, line).match.start - OffsetOfLine(line)
            IN  InSqlString(content, match_pos) => InsideQuotes(content, match_pos)

(***************************************************************************)
(* Properties of the lazy load in scan_directory.                          *)
(***************************************************************************)
\* What scan_directory returns for the root when the scanner was
\* constructed with load_immediately=True.
EagerResult ==
  LET elements == load_data_elements(<<>>, data_elements_dir)
      paths == Walk(root.name, root, DEFAULT_EXCLUDE_DIRS, DEFAULT_CODE_EXTENSIONS)
  IN  CASE root.kind = "missing" -> <<>>
        [] root.kind = "file" -> scan_file(elements, root.name, root)
        [] root.kind = "dir" ->
             ConcatAll([k \in 1..Len(paths) |->
                          scan_file(elements, paths[k], OpenFile(root, paths[k]))])

\* C27 as stated: whether the scanner was constructed with
\* load_immediately=False or True, scan_directory returns the findings of
\* the eagerly loaded scanner, for a directory root and for a single-file
\* root alike.
C27_LazyScansAsEager ==
  pc = "returned" => result = EagerResult

(***************************************************************************)
(* Properties of the exclusions that the arguments of scan_directory do    *)
(* not lift.                                                               *)
(***************************************************************************)
\* C29: whatever extensions and exclude_dirs are passed to scan_directory on
\* a directory, no file is passed to scan_file whose lower-cased suffix is
\* in DEFAULT_EXCLUDE_EXTENSIONS, whose name is in DEFAULT_EXCLUDE_FILES or
\* starts with a dot, or which lies below a directory (under the root) whose
\* name starts with a dot.
C29_OverridesKeepFixedExclusions ==
  (selection.override.called /\ root.kind = "dir") =>
    \A e \in RootEntries :
      PassedTo(selection.override, e.path) =>
        /\ LowerSuffix(e.file.name) \notin DEFAULT_EXCLUDE_EXTENSIONS
        /\ e.file.name \notin DEFAULT_EXCLUDE_FILES
        /\ e.file.name[1] # "."
        /\ \A k \in DOMAIN e.dirs : e.dirs[k][1] # "."

\* A call with extensions that name .png and ts and with exclude_dirs that
\* replace the default, on a tree holding logo.png and a dot-directory with
\* app.py in it: a file below node_modules is passed to scan_file.
C29_Witness ==
  /\ selection.override.called /\ root.kind = "dir"
  /\ extensions = Some(<<<<"p","y">>, <<".","p","n","g">>, <<"t","s">>>>)
  /\ selection.override.exclude_dirs = Some({<<"s","r","c">>})
  /\ \E e \in RootEntries : e.file.name = FileLogo.name
  /\ \E e \in RootEntries :
       /\ e.file.name = FileApp.name
       /\ \E k \in DOMAIN e.dirs : e.dirs[k][1] = "."
  /\ \E e \in RootEntries :
       /\ e.dirs # <<>> /\ e.dirs[1] = <<"n","o","d","e","_","m","o","d","u","l","e","s">>
       /\ PassedTo(selection.override, e.path)

(***************************************************************************)
(* Properties of get_next_report_filename.                                 *)
(***************************************************************************)
EntryNames == {e.name : e \in reports_subdir}

\* The name of the report of that number: no number for 0.
ReportName(n, extension) ==
  IF n = 0 THEN base_name \o extension ELSE base_name \o Decimal(n) \o extension

\* The numbers 1.. whose report of that extension is in the directory.
NumbersPresent(extension) ==
  {n \in 1..(MaxReportNumber + 1) : ReportName(n, extension) \in EntryNames}

\* C22: get_next_report_filename returns the base name without a number
\* when no entry has that name, and otherwise the base name with the highest
\* number among the reports of the extension plus one (1 when none is
\* numbered); after any creations and deletions of reports, the name it
\* returns is the name of no entry of the directory.
C22_NextReportNameIsFree ==
  (filename.called /\ ~filename.raised) =>
    LET extension == ReportExtensions[filename.file_type]
        present == NumbersPresent(extension)
        highest == IF present = {} THEN 0 ELSE CHOOSE n \in present : \A m \in present : m <= n
    IN  /\ filename.name =
             IF ReportName(0, extension) \notin EntryNames THEN ReportName(0, extension)
             ELSE ReportName(highest + 1, extension)
        /\ filename.name \notin EntryNames

\* After deletions the directory holds the un-numbered report and the
\* reports 8 and 9 but not report 1, and the name returned is report 10.
C22_Witness ==
  /\ filename.called /\ ~filename.raised
  /\ filename.name = ReportName(10, ReportExtensions.txt)
  /\ ReportName(9, ReportExtensions.txt) \in EntryNames
  /\ ReportName(1, ReportExtensions.txt) \notin EntryNames
  /\ ReportName(0, ReportExtensions.txt) \in EntryNames

(***************************************************************************)
(* Properties of the DatabaseSchemaScanner.                                *)
(***************************************************************************)
\* Some element of the scanner has a pattern that is found in the column
\* name, case ignored.
SomeElementMatches(column_name) ==
  \E e \in DOMAIN db.data_elements :
    \E p \in DOMAIN db.data_elements[e].patterns :
      Search(db.data_elements[e].patterns[p].prog, column_name, TRUE)

\* C30 as stated: scan_column_name returns at most one match for any column
\* name and any catalog, and exactly one whenever some element of the
\* catalog has a pattern that matches the column name.
C30_OneMatchPerColumn ==
  (db.called /\ db.op = "scan_column_name") =>
    /\ Len(db.result) <= 1
    /\ SomeElementMatches(db.arg) => Len(db.result) = 1

\* C30 amended: scan_column_name returns at most one match; for a column
\* name that is not empty it returns exactly one match whenever some element
\* has a pattern that matches the name, the match of an element that does,
\* and none otherwise; for the empty column name it returns none, whatever
\* the patterns match.
C30_OneMatchPerNamedColumn ==
  (db.called /\ db.op = "scan_column_name") =>
    /\ Len(db.result) <= 1
    /\ db.arg = <<>> => db.result = <<>>
    /\ db.arg # <<>> =>
         /\ Len(db.result) = (IF SomeElementMatches(db.arg) THEN 1 ELSE 0)
         /\ \A k \in DOMAIN db.result :
              /\ db.result[k].matched_text = db.arg
              /\ \E e \in DOMAIN db.data_elements :
                   /\ db.data_elements[e].name = db.result[k].element_name
                   /\ \E p \in DOMAIN db.data_elements[e].patterns :
                        Search(db.data_elements[e].patterns[p].prog, db.arg, TRUE)

\* The column user_email with a catalog that has Work Email and Email Open
\* Rates but no Email Address: the filter drops both matches, and one match
\* is returned all the same.
C30_Witness ==
  /\ db.called /\ db.op = "scan_column_name"
  /\ db.arg = <<"u","s","e","r","_","e","m","a","i","l">>
  /\ \A e \in DOMAIN db.data_elements : db.data_elements[e].name # "Email Address"
  /\ Cardinality({e \in DOMAIN db.data_elements :
                    ColumnMatchesElement(db.data_elements[e], db.arg)}) = 2
  /\ Len(db.result) = 1

\* The values of the column in the sample that scan_table_content scans:
\* not None, and of 4 characters or more as strings.
ScannedValues(sample, col_name) ==
  {ValueStr(sample.rows[r][i][2]) :
     <<r, i>> \in {x \in (DOMAIN sample.rows) \X (1..2) :
                     /\ sample.rows[x[1]][x[2]][1] = col_name
                     /\ sample.rows[x[1]][x[2]][2].type # "None"
                     /\ Len(ValueStr(sample.rows[x[1]][x[2]][2])) >= 4}}

\* scan_text has a finding of the element of that name in the value.
FoundIn(val_str, element_name) ==
  LET val_findings == scan_text(data_elements, val_str, "")
  IN  \E k \in DOMAIN val_findings : val_findings[k].element_name = element_name

\* C23: for the rows the adapter gave, scan_table_content returns exactly
\* one finding, of source "Content" and with the column name, for each
\* column and element such that scan_text has a finding of the element in
\* some value of the column that is not None and has 4 characters or more,
\* and no finding for any other column and element.
C23_OneContentFindingPerColumnElement ==
  (db.called /\ db.op = "scan_table_content" /\ ~db.arg.raised) =>
    /\ \A k \in DOMAIN db.result :
         /\ db.result[k].source = "Content"
         /\ db.result[k].column_name \in {ColData, ColOther}
         /\ \E e \in DOMAIN data_elements : data_elements[e].name = db.result[k].element_name
    /\ \A col_name \in {ColData, ColOther}, e \in DOMAIN data_elements :
         Cardinality({k \in DOMAIN db.result :
                        /\ db.result[k].column_name = col_name
                        /\ db.result[k].element_name = data_elements[e].name})
           = IF \E v \in ScannedValues(db.arg, col_name) : FoundIn(v, data_elements[e].name)
             THEN 1 ELSE 0

\* Two rows with an address in the same column, one of them with ssn too,
\* and a value ssn of 3 characters in the other column: two findings, both
\* of the first column.
C23_Witness ==
  /\ db.called /\ db.op = "scan_table_content" /\ ~db.arg.raised
  /\ Len(db.arg.rows) = 2
  /\ db.arg.rows[1][1][2] = StrValue(<<"b","@","c",".","d"," ","s","s","n">>)
  /\ db.arg.rows[1][2][2] = StrValue(<<"s","s","n">>)
  /\ db.arg.rows[2][1][2] = StrValue(<<"a","@","b",".","c">>)
  /\ Len(db.result) = 2
  /\ \A k \in DOMAIN db.result : db.result[k].column_name = ColData
  /\ \E k \in DOMAIN db.result : db.result[k].element_name = "SSN"

(***************************************************************************)
(* Properties of truscanner.api.scan.                                      *)
(***************************************************************************)
\* The call is scan(path, with_ai=True) on a path that exists, with
\* use_openai not given, no model given, OPENAI_API_KEY not set and Ollama
\* listing no models.
NoModelAnywhere ==
  /\ api.called
  /\ api.path.kind # "missing"
  /\ api.with_ai
  /\ ~api.use_openai.given
  /\ ~api.model.given
  /\ ~api.OPENAI_API_KEY.given
  /\ ~api.ollama.raised /\ api.ollama.models = <<>>

\* C21: scan(path, with_ai=True) with use_openai not given, no
\* OPENAI_API_KEY, no model and no Ollama models does not raise, does not
\* call the AI scanner's scan_directory, and returns ai_enabled = True,
\* ai_findings = [] and ai_total_findings = 0.
C21_NoModelNoAIScan ==
  NoModelAnywhere =>
    /\ api.outcome.raised = "none"
    /\ api.outcome.ai_calls = <<>>
    /\ api.outcome.result.ai_enabled = TRUE
    /\ api.outcome.result.ai_findings = <<>>
    /\ api.outcome.result.ai_total_findings = 0

\* Such a call on the project directory, whose regex scan has findings.
C21_Witness ==
  /\ NoModelAnywhere
  /\ api.path.kind = "dir"
  /\ api.outcome.raised = "none"
  /\ api.outcome.ai_calls = <<>>
  /\ api.outcome.result.total_findings > 0
  /\ api.outcome.result.ai_total_findings = 0

(***************************************************************************)
(* Properties of concurrent calls of scan_directory.                       *)
(***************************************************************************)
\* The elements that one load of the catalog gives, one for each source
\* that has a pattern that compiles.
LoadedOnce == load_data_elements(<<>>, data_elements_dir)

\* How many times the element is in the scanner's list.
TimesLoaded(element) ==
  Cardinality({k \in DOMAIN data_elements : data_elements[k] = element})

\* Two findings of one result that are equal in every field.
HasDuplicates(fs) == \E j, k \in DOMAIN fs : j < k /\ fs[j] = fs[k]

BothReturned == \A t \in DOMAIN threads : threads[t].pc = "returned"

\* C28 as stated: when two threads call scan_directory concurrently on a
\* scanner whose catalog is still empty, the catalog is loaded at most once:
\* after both calls have returned the element list holds each catalog source
\* exactly once, and no call has returned duplicated findings.
C28_CatalogLoadedOnce ==
  (threads # <<>> /\ BothReturned) =>
    /\ \A k \in DOMAIN LoadedOnce : TimesLoaded(LoadedOnce[k]) = 1
    /\ \A t \in DOMAIN threads : ~HasDuplicates(threads[t].result)
====
